---- MODULE Spec2Model ----
(***************************************************************************)
(* Model of the job store, the background workers, the reaper and the      *)
(* polling routes of simpleastro (src/simpleastro/app.py).                 *)
(*                                                                         *)
(* Python values are modelled as follows.  An optional value is a sequence *)
(* of length at most one: None is << >> and a value v that is not None is  *)
(* <<v>>.  A dict is a function from its keys (strings) to its values.     *)
(* The metadata dict is a set of <<key, value>> pairs.  datetime.now() is  *)
(* the variable now, counted in whole seconds.  uuid4().hex is the next    *)
(* unused number of 1..MaxJobs.                                            *)
(***************************************************************************)
EXTENDS Integers, Sequences, FiniteSets, TLC

(* ----------------------------- bounds ---------------------------------- *)
MaxJobs == 2
MaxTime == 2
RetentionSeconds == 1
\* ticks of the reaper that may end in an exception
MaxFailures == 2

(* ------------------------- program constants --------------------------- *)
MaxWorkers == 5

VARIABLES
    jobs,      \* JobStore.jobs: dict job_id -> job dict
    now,       \* the wall clock read by datetime.now()
    nextId,    \* number of job ids minted so far by uuid4()
    task,      \* per job id: the worker task handed to the executor
    calls,     \* per job id: the statuses its task has passed to JobStore.update
    born,      \* per job id: the time its record was added (0 - 1 if never)
    last,      \* the most recent call of a route or store method and its result
    held,      \* the job dict an /api/status request in flight holds a reference to
    lock,      \* JobStore.lock: None when free, else the thread that holds it
    reaper,    \* the cleanup_worker thread: its position and its failed ticks
    executor   \* the ThreadPoolExecutor: open, shutdown (draining) or closed,
               \* and the tasks it had been handed when shutdown was called

vars == <<jobs, now, nextId, task, calls, born, last, held, lock, reaper,
         executor>>

Ids == 1..MaxJobs
\* ids a poller may ask for; MaxJobs + 1 is an id that is never minted
PollIds == 1..(MaxJobs + 1)

None == << >>
Some(v) == <<v>>
\* Python truthiness of an optional string: None and '' are falsy
TruthyStr(o) == o # None /\ o # Some("")

Names == {"Ann"}
\* messages carried by an exception raised by a collaborator; str(e) of an
\* exception raised without arguments is ''
Msgs == {"", "boom"}
Report == "report text"

Statuses == {"pending", "running", "done", "error"}
Terminal == {"done", "error"}

(* --------------------------- JobStore ---------------------------------- *)

InitialSubstatusWrong(job_type) ==
    IF job_type = "other" THEN None ELSE Some("chart_pending")

\* JobStore.add: initial substatus determined from job_type
InitialSubstatus(job_type) ==
    IF job_type = "chart" THEN Some("chart_pending")
    ELSE IF job_type = "analysis" THEN Some("analysis_pending")
    ELSE None

\* the dict literal stored by JobStore.add
NewJob(status, job_type, chart_job_id, metadata, t) ==
    [status |-> status,
     job_type |-> job_type,
     substatus |-> InitialSubstatus(job_type),
     chart_job_id |-> chart_job_id,
     filename |-> None,
     svg_path |-> None,
     error |-> None,
     analysis_report |-> None,
     analysis_format |-> None,
     analysis_started_at |-> None,
     analysis_completed_at |-> None,
     analysis_progress |-> 0,
     created_at |-> t,
     metadata |-> metadata]

\* del self.jobs[jid] for every jid of ids
Remove(js, ids) == [k \in (DOMAIN js) \ ids |-> js[k]]


StoreAddKeepExisting(js, id, status, job_type, chart_job_id, metadata, t) ==
    [k \in (DOMAIN js) \cup {id} |->
        IF k \in DOMAIN js THEN js[k]
        ELSE NewJob(status, job_type, chart_job_id, metadata, t)]
\* self.jobs[job_id] = {...}
StoreAdd(js, id, status, job_type, chart_job_id, metadata, t) ==
    [k \in (DOMAIN js) \cup {id} |->
        IF k = id THEN NewJob(status, job_type, chart_job_id, metadata, t)
        ELSE js[k]]

IsExpiredAtThreshold(job, t) == (t - job.created_at) >= RetentionSeconds

\* JobStore._is_expired
IsExpired(job, t) == (t - job.created_at) > RetentionSeconds

StoreGetTouch(js, id, t) ==
    IF id \in DOMAIN js /\ IsExpired(js[id], t)
    THEN [jobs |-> Remove(js, {id}), ret |-> None]
    ELSE IF id \in DOMAIN js
         THEN [jobs |-> [js EXCEPT ![id].created_at = t], ret |-> Some(js[id])]
         ELSE [jobs |-> js, ret |-> None]

StoreGetCreate(js, id, t) ==
    IF id \in DOMAIN js /\ IsExpired(js[id], t)
    THEN [jobs |-> Remove(js, {id}), ret |-> None]
    ELSE IF id \in DOMAIN js
         THEN [jobs |-> js, ret |-> Some(js[id])]
         ELSE [jobs |-> StoreAdd(js, id, "pending", "chart", None, {}, t),
               ret |-> None]


StoreGetSweeps(js, id, t) ==
    IF id \in DOMAIN js /\ IsExpired(js[id], t)
    THEN [jobs |-> Remove(js, {k \in DOMAIN js : IsExpired(js[k], t)}),
          ret |-> None]
    ELSE [jobs |-> js,
          ret |-> IF id \in DOMAIN js THEN Some(js[id]) ELSE None]
\* JobStore.get: the store after the call and the value returned
StoreGet(js, id, t) ==
    IF id \in DOMAIN js /\ IsExpired(js[id], t)
    THEN [jobs |-> Remove(js, {id}), ret |-> None]
    ELSE [jobs |-> js,
          ret |-> IF id \in DOMAIN js THEN Some(js[id]) ELSE None]

MergeReplace(job, updates) == updates

MergeStatusOnly(job, updates) ==
    [f \in DOMAIN job |->
        IF f = "status" /\ f \in DOMAIN updates THEN updates[f] ELSE job[f]]

\* dict.update(updates)
Merge(job, updates) ==
    [f \in (DOMAIN job) \cup (DOMAIN updates) |->
        IF f \in DOMAIN updates THEN updates[f] ELSE job[f]]

StoreUpdateUpsert(js, id, updates) ==
    IF id \in DOMAIN js
    THEN [js EXCEPT ![id] = Merge(js[id], updates)]
    ELSE [k \in (DOMAIN js) \cup {id} |->
            IF k = id THEN Merge(NewJob("pending", "chart", None, {}, 0), updates)
            ELSE js[k]]

StoreUpdateAll(js, id, updates) ==
    IF id \in DOMAIN js
    THEN [k \in DOMAIN js |-> Merge(js[k], updates)]
    ELSE js

\* JobStore.update
StoreUpdate(js, id, updates) ==
    IF id \in DOMAIN js
    THEN [js EXCEPT ![id] = Merge(js[id], updates)]
    ELSE js

ExpiredIdsFinished(js, t) ==
    {k \in DOMAIN js : (t - js[k].created_at) > RetentionSeconds
                       \/ js[k].status \in Terminal}

ExpiredIdsKeepUnfinished(js, t) ==
    {k \in DOMAIN js : (t - js[k].created_at) > RetentionSeconds
                       /\ js[k].status \in Terminal}
\* JobStore.cleanup_expired: the list expired_ids
ExpiredIds(js, t) ==
    {k \in DOMAIN js : (t - js[k].created_at) > RetentionSeconds}

StoreCleanupExpiredCountAll(js, t) ==
    [jobs |-> Remove(js, ExpiredIds(js, t)),
     ret |-> Cardinality(DOMAIN js)]

\* JobStore.cleanup_expired: the store after the call and the count returned
StoreCleanupExpired(js, t) ==
    [jobs |-> Remove(js, ExpiredIds(js, t)),
     ret |-> Cardinality(ExpiredIds(js, t))]

(* ------------------------ collaborators -------------------------------- *)

\* an exception object: its class and str(e)
Exc(cls, msg) == [cls |-> cls, msg |-> msg]

\* validators.sanitize_filename, as the tokens of the formatted filename
FileName(name, id) ==
    <<(IF name = "" THEN "Chart" ELSE name), " - Natal Chart", " - ",
      ToString(id) \o ".svg">>

\* chart_service.generate_chart: the dict returned on success
ChartResult(name, id) ==
    [filename |-> Some(FileName(name, id)),
     svg_path |-> Some(<<"generated_charts/">> \o FileName(name, id))]

\* outcomes of validate_fn(form_data) inside the task: the handler takes the
\* validation function as an argument, so it may raise any exception
ValidateOutcomes ==
    {[ok |-> TRUE, exc |-> Exc("", "")]}
    \cup {[ok |-> FALSE, exc |-> Exc("ValueError", m)] : m \in Msgs}
    \cup {[ok |-> FALSE, exc |-> Exc("Exception", "boom")]}

\* outcomes of generate_chart(validated, job_id): ChartTooLargeError is
\* mapped to ValueError, ChartMissingError to FileNotFoundError,
\* ChartGenerationError to RuntimeError
GenerateOutcomes ==
    {[ok |-> TRUE, exc |-> Exc("", "")]}
    \cup {[ok |-> FALSE, exc |-> Exc(c, "boom")] :
            c \in {"ValueError", "FileNotFoundError", "Exception"}}

\* outcomes of llm_analyzer.analyze_chart(chart_data, analysis_options)
LLMOutcomes ==
    {[ok |-> TRUE, exc |-> Exc("", "")]}
    \cup {[ok |-> FALSE, exc |-> Exc("Exception", m)] : m \in Msgs}

(* ----------------------- worker task helpers --------------------------- *)

\* a task's locals: param is the chart_job_id argument, cid is
\* stored_chart_job_id, chart is what the task reads of chart_job, report is
\* the value analyze_chart returned, exc is the exception e an except clause
\* caught; ext is the external calls made so far
NoTask == [kind |-> "none", pc |-> "none", param |-> None, cid |-> None,
           chart |-> None, report |-> None, exc |-> None, ext |-> {}]
NoCall == [op |-> "none", id |-> 0, args |-> None, ret |-> None, code |-> 0]

\* tasks that occupy a thread of the executor
Active == {i \in DOMAIN task : task[i].pc \notin {"none", "queued", "returned"}}

\* the threads that take JobStore.lock: the executor thread that runs the
\* task of job id, the cleanup_worker thread, a request handler
Worker(id) == [who |-> "worker", id |-> id]
Reaper == [who |-> "reaper", id |-> 0]
Request == [who |-> "request", id |-> 0]

LockAfterWithHeld(holder) == Some(holder)

\* the lock after the "with self.lock:" block of a JobStore method that
\* holder entered: released, on return and on an exception alike
LockAfterWith(holder) == None

\* ThreadPoolExecutor(max_workers=5): open; queued and running are the tasks
\* that are waiting for a thread and that occupy one when shutdown is called
ExecutorCreated == [state |-> "open", queued |-> {}, running |-> {}]

\* cleanup_thread.start(): the loop is in time.sleep(300), no tick has failed
ReaperStarted == [state |-> "sleeping", failed |-> 0]

\* no /api/status request is between the return of job_store.get and its
\* response
NoReader == held = None

\* the steps modelled while a request holds the dict of a job are the steps
\* of that job's task, the only writer of the dict; every other step neither
\* reads nor writes the dict and is taken before the get or after the response
MayStep(id) == IF held = None THEN TRUE ELSE held[1].id = id

\* the dict a held reference h points to: get returns self.jobs[job_id]
\* itself, and while the request holds it the record stays in the store (no
\* time passes and no sweep runs in between)
Deref(h) == jobs[h.id]

RECURSIVE ApplyUpdates(_, _, _)
\* the store after job_store.update(id, u) for each u of seq, in order
ApplyUpdates(js, id, seq) ==
    IF seq = << >> THEN js
    ELSE ApplyUpdates(StoreUpdate(js, id, Head(seq)), id, Tail(seq))

\* the statuses of the calls of seq that carry a status, in order
RECURSIVE StatusesOf(_)
StatusesOf(seq) ==
    IF seq = << >> THEN << >>
    ELSE (IF "status" \in DOMAIN Head(seq) THEN <<Head(seq).status>> ELSE << >>)
         \o StatusesOf(Tail(seq))

\* the task of id issues the update calls of seq on the store js, then
\* continues with its local variables as in t; last records the final call
\* of seq and whether the record was present for it
Issue(js, id, seq, t) ==
    /\ last = NoCall
    /\ MayStep(id)
    /\ jobs' = ApplyUpdates(js, id, seq)
    /\ calls' = [calls EXCEPT ![id] = @ \o StatusesOf(seq)]
    /\ task' = [task EXCEPT ![id] = t]
    /\ last' = IF seq = << >> THEN NoCall
               ELSE [NoCall EXCEPT !.op = "update", !.id = id,
                                   !.args = Some(seq[Len(seq)]),
                                   !.code = IF id \in DOMAIN js THEN 1 ELSE 0]
    /\ lock = None /\ lock' = LockAfterWith(Worker(id))
    /\ UNCHANGED <<now, nextId, born, held, reaper, executor>>

\* the task of id takes a step that calls no JobStore method and continues
\* with its local variables as in t
LocalStep(id, t) ==
    /\ last = NoCall
    /\ MayStep(id)
    /\ task' = [task EXCEPT ![id] = t]
    /\ UNCHANGED <<jobs, now, nextId, calls, born, last, held, lock, reaper,
                   executor>>

(* ------------------------ generate_chart_job --------------------------- *)

ChartRunningUpdate == [status |-> "running", substatus |-> Some("chart_running")]

ChartDoneUpdateNoStatus(result) ==
    [substatus |-> Some("chart_done"),
     filename |-> result.filename, svg_path |-> result.svg_path,
     error |-> None]

ChartDoneUpdateNoFile(result) ==
    [status |-> "done", substatus |-> Some("chart_done"),
     filename |-> None, svg_path |-> result.svg_path, error |-> None]


\* the update of the success path
ChartDoneUpdate(result) ==
    [status |-> "done", substatus |-> Some("chart_done"),
     filename |-> result.filename, svg_path |-> result.svg_path,
     error |-> None]

ChartErrorUpdatesSwallowed(e) == << >>
ChartErrorUpdatesNoCatchAll(e) ==
    IF e.cls = "ValueError"
    THEN <<[status |-> "error", filename |-> None, svg_path |-> None,
            error |-> Some(e.msg)]>>
    ELSE IF e.cls = "FileNotFoundError"
    THEN <<[status |-> "error", filename |-> None, svg_path |-> None,
            error |-> Some("Chart generation failed: " \o e.msg)]>>
    ELSE << >>

ChartErrorUpdatesGenericMessage(e) ==
    IF e.cls = "ValueError"
    THEN <<[status |-> "error", filename |-> None, svg_path |-> None,
            error |-> Some("Invalid input")]>>
    ELSE IF e.cls = "FileNotFoundError"
    THEN <<[status |-> "error", filename |-> None, svg_path |-> None,
            error |-> Some("Chart generation failed: " \o e.msg)]>>
    ELSE <<[status |-> "error", filename |-> None, svg_path |-> None,
            error |-> Some("Unexpected error: " \o e.msg)]>>

\* the update calls issued by the except clauses for exception e
ChartErrorUpdates(e) ==
    IF e.cls = "ValueError"
    THEN <<[status |-> "error", filename |-> None, svg_path |-> None,
            error |-> Some(e.msg)]>>
    ELSE IF e.cls = "FileNotFoundError"
    THEN <<[status |-> "error", filename |-> None, svg_path |-> None,
            error |-> Some("Chart generation failed: " \o e.msg)]>>
    ELSE <<[status |-> "error", filename |-> None, svg_path |-> None,
            error |-> Some("Unexpected error: " \o e.msg)]>>

\* a free executor thread takes the task: update to running
ChartStart(id) ==
    /\ task[id].kind = "chart" /\ task[id].pc = "queued"
    /\ Cardinality(Active) < MaxWorkers
    /\ Issue(jobs, id, <<ChartRunningUpdate>>, [task[id] EXCEPT !.pc = "validate"])

\* validate_birth_data(form_data) returns or raises
ChartValidate(id) ==
    /\ task[id].kind = "chart" /\ task[id].pc = "validate"
    /\ \E out \in ValidateOutcomes :
          IF out.ok
          THEN LocalStep(id, [task[id] EXCEPT !.pc = "generate",
                                              !.ext = @ \cup {"validate"}])
          ELSE Issue(jobs, id, ChartErrorUpdates(out.exc),
                     [task[id] EXCEPT !.pc = "returned", !.exc = Some(out.exc),
                                      !.ext = @ \cup {"validate"}])

\* generate_chart(validated, job_id) returns or raises, then the final update
ChartGenerate(id) ==
    /\ task[id].kind = "chart" /\ task[id].pc = "generate"
    /\ \E out \in GenerateOutcomes, name \in Names :
          IF out.ok
          THEN Issue(jobs, id, <<ChartDoneUpdate(ChartResult(name, id))>>,
                     [task[id] EXCEPT !.pc = "returned",
                                      !.ext = @ \cup {"generate"}])
          ELSE Issue(jobs, id, ChartErrorUpdates(out.exc),
                     [task[id] EXCEPT !.pc = "returned", !.exc = Some(out.exc),
                                      !.ext = @ \cup {"generate"}])

(* ---------------------- generate_analysis_job -------------------------- *)


AnalysisRunningUpdateClearsChart(t) ==
    [status |-> "running", substatus |-> Some("analysis_running"),
     analysis_started_at |-> Some(t), analysis_progress |-> 0,
     chart_job_id |-> None]

\* the first update of the task
AnalysisRunningUpdate(t) ==
    [status |-> "running", substatus |-> Some("analysis_running"),
     analysis_started_at |-> Some(t), analysis_progress |-> 0]

ProgressUpdate(p) == [analysis_progress |-> p]

AnalysisDoneUpdateNoReport(report, t) ==
    [analysis_format |-> Some("markdown"),
     analysis_progress |-> 100, analysis_completed_at |-> Some(t),
     substatus |-> Some("analysis_done"), status |-> "done"]

\* the update of the success path
AnalysisDoneUpdate(report, t) ==
    [analysis_report |-> Some(report), analysis_format |-> Some("markdown"),
     analysis_progress |-> 100, analysis_completed_at |-> Some(t),
     substatus |-> Some("analysis_done"), status |-> "done"]

AnalysisErrorUpdatesNoError(e, t) ==
    <<[status |-> "error", substatus |-> Some("analysis_error"),
       analysis_completed_at |-> Some(t)]>>

AnalysisErrorUpdatesFullProgress(e, t) ==
    <<[status |-> "error", substatus |-> Some("analysis_error"),
       error |-> Some(e.msg), analysis_completed_at |-> Some(t),
       analysis_progress |-> 100]>>


AnalysisErrorUpdatesNoCompleted(e, t) ==
    <<[status |-> "error", substatus |-> Some("analysis_error"),
       error |-> Some(e.msg)]>>
\* the update call issued by the except clause for exception e
AnalysisErrorUpdates(e, t) ==
    <<[status |-> "error", substatus |-> Some("analysis_error"),
       error |-> Some(e.msg), analysis_completed_at |-> Some(t)]>>

\* metadata.get(key)
MetaGet(metadata, key) ==
    IF \E p \in metadata : p[1] = key
    THEN Some((CHOOSE p \in metadata : p[1] = key)[2])
    ELSE None

\* filename.replace(' - Natal Chart', '').split(' - ')[0] on the tokens
NameFromFilename(fn) ==
    LET s == SelectSeq(fn, LAMBDA x : x # " - Natal Chart")
    IN IF s = << >> \/ s[1] = " - " THEN "" ELSE s[1]

\* person_name as computed from the chart job: metadata name, else the
\* filename; None has no attribute 'replace'
PersonName(chart) ==
    IF chart.metadata # {} /\ TruthyStr(MetaGet(chart.metadata, "name"))
    THEN [ok |-> TRUE, val |-> MetaGet(chart.metadata, "name")[1],
          exc |-> Exc("", "")]
    ELSE IF chart.filename = None
    THEN [ok |-> FALSE, val |-> "",
          exc |-> Exc("Exception",
                      "'NoneType' object has no attribute 'replace'")]
    ELSE [ok |-> TRUE, val |-> NameFromFilename(chart.filename[1]),
          exc |-> Exc("", "")]

ChartAvailableStatusOnly(chart_job) == chart_job.status = "done"

\* not (chart_job.get('status') != 'done' or not chart_job.get('svg_path'))
ChartAvailable(chart_job) ==
    chart_job.status = "done" /\ TruthyStr(chart_job.svg_path)

ChartMissingErrorSameMessage(cid) ==
    Exc("ValueError", "Referenced chart is not available (chart must be done)")

\* ValueError(f'Referenced chart job not found or expired: {id}')
ChartMissingError(cid) ==
    Exc("ValueError",
        "Referenced chart job not found or expired: " \o ToString(cid))

\* ValueError('Referenced chart is not available (chart must be done)')
ChartUnavailableError ==
    Exc("ValueError", "Referenced chart is not available (chart must be done)")

\* the except clause: one update with status error, then return
AnalysisFail(js, id, e) ==
    Issue(js, id, AnalysisErrorUpdates(e, now),
          [task[id] EXCEPT !.pc = "returned", !.exc = Some(e)])


AnalysisStartRawThread(id) ==
    /\ task[id].kind = "analysis" /\ task[id].pc = "queued"
    /\ Issue(jobs, id, <<AnalysisRunningUpdate(now)>>,
             [task[id] EXCEPT !.pc = "get_own"])
\* a free executor thread takes the task: update to running
AnalysisStart(id) ==
    /\ task[id].kind = "analysis" /\ task[id].pc = "queued"
    /\ Cardinality(Active) < MaxWorkers
    /\ Issue(jobs, id, <<AnalysisRunningUpdate(now)>>,
             [task[id] EXCEPT !.pc = "get_own"])


StoredChartJobIdParamFirst(analysis_job, chart_job_id) ==
    IF chart_job_id # None THEN chart_job_id ELSE analysis_job.chart_job_id

\* analysis_job.get('chart_job_id') or chart_job_id
StoredChartJobId(analysis_job, chart_job_id) ==
    IF analysis_job.chart_job_id # None
    THEN analysis_job.chart_job_id
    ELSE chart_job_id
\* analysis_job = job_store.get(job_id); stored_chart_job_id
AnalysisGetOwn(id) ==
    /\ task[id].kind = "analysis" /\ task[id].pc = "get_own"
    /\ LET r == StoreGet(jobs, id, now)
           stored == IF r.ret # None
                     THEN StoredChartJobId(r.ret[1], task[id].param)
                     ELSE None
       IN IF r.ret = None
          THEN AnalysisFail(r.jobs, id, Exc("ValueError", "Analysis job not found"))
          ELSE IF stored = None
          THEN AnalysisFail(r.jobs, id,
                 Exc("ValueError",
                     "chart_job_id not provided and not found in job metadata"))
          ELSE Issue(r.jobs, id, << >>,
                     [task[id] EXCEPT !.pc = "get_chart", !.cid = stored])

\* chart_job = job_store.get(stored_chart_job_id) and its two checks
AnalysisGetChart(id) ==
    /\ task[id].kind = "analysis" /\ task[id].pc = "get_chart"
    /\ LET cid == task[id].cid[1]
           r == StoreGet(jobs, cid, now)
       IN IF r.ret = None
          THEN AnalysisFail(r.jobs, id, ChartMissingError(cid))
          ELSE IF ~ChartAvailable(r.ret[1])
          THEN AnalysisFail(r.jobs, id, ChartUnavailableError)
          ELSE Issue(r.jobs, id, << >>,
                     [task[id] EXCEPT !.pc = "p10",
                        !.chart = Some([filename |-> r.ret[1].filename,
                                        metadata |-> r.ret[1].metadata])])


AnalysisProgress10OnChart(id) ==
    /\ task[id].kind = "analysis" /\ task[id].pc = "p10"
    /\ last = NoCall
    /\ MayStep(id)
    /\ jobs' = StoreUpdate(jobs, task[id].cid[1], ProgressUpdate(10))
    /\ task' = [task EXCEPT ![id].pc = "p20"]
    /\ last' = [NoCall EXCEPT !.op = "update", !.id = task[id].cid[1],
                              !.args = Some(ProgressUpdate(10)), !.code = 1]
    /\ lock = None /\ lock' = LockAfterWith(Worker(id))
    /\ UNCHANGED <<now, nextId, calls, born, held, reaper, executor>>
\* job_store.update(job_id, {'analysis_progress': 10})
AnalysisProgress10(id) ==
    /\ task[id].kind = "analysis" /\ task[id].pc = "p10"
    /\ Issue(jobs, id, <<ProgressUpdate(10)>>, [task[id] EXCEPT !.pc = "p20"])

\* person_name and chart_data are built, then progress 20
AnalysisProgress20(id) ==
    /\ task[id].kind = "analysis" /\ task[id].pc = "p20"
    /\ LET pn == PersonName(task[id].chart[1])
       IN IF pn.ok
          THEN Issue(jobs, id, <<ProgressUpdate(20)>>,
                     [task[id] EXCEPT !.pc = "llm"])
          ELSE AnalysisFail(jobs, id, pn.exc)

\* llm_analyzer.analyze_chart returns or raises; on return progress 90
AnalysisLLM(id) ==
    /\ task[id].kind = "analysis" /\ task[id].pc = "llm"
    /\ \E out \in LLMOutcomes :
          IF out.ok
          THEN Issue(jobs, id, <<ProgressUpdate(90)>>,
                     [task[id] EXCEPT !.pc = "finish", !.report = Some(Report),
                                      !.ext = @ \cup {"llm"}])
          ELSE Issue(jobs, id, AnalysisErrorUpdates(out.exc, now),
                     [task[id] EXCEPT !.pc = "returned", !.exc = Some(out.exc),
                                      !.ext = @ \cup {"llm"}])

\* the final update of the success path
AnalysisFinish(id) ==
    /\ task[id].kind = "analysis" /\ task[id].pc = "finish"
    /\ Issue(jobs, id, <<AnalysisDoneUpdate(task[id].report[1], now)>>,
             [task[id] EXCEPT !.pc = "returned"])


(* ------------------------------ routes --------------------------------- *)

\* an /analyze request: a form post carries job_id in request.form, a JSON
\* post carries it in request.json (request.form is then empty)
Requests ==
    {[is_json |-> FALSE, form_id |-> f, json_id |-> None] :
        f \in {None} \cup {Some(k) : k \in PollIds}}
    \cup {[is_json |-> TRUE, form_id |-> None, json_id |-> j] :
        j \in {None} \cup {Some(k) : k \in PollIds}}

\* request.form.get('job_id') or request.json.get('job_id')
\*     if request.is_json else None
RequestChartJobId(req) ==
    IF req.is_json
    THEN (IF req.form_id # None THEN req.form_id ELSE req.json_id)
    ELSE None


SubmitRejectedAddsRecord ==
    /\ last = NoCall
    /\ NoReader
    /\ nextId < MaxJobs
    /\ jobs' = StoreAdd(jobs, nextId + 1, "pending", "chart", None, {}, now)
    /\ nextId' = nextId + 1
    /\ born' = [born EXCEPT ![nextId + 1] = now]
    /\ last' = [NoCall EXCEPT !.op = "submit", !.code = 400]
    /\ UNCHANGED <<now, task, calls, held, lock, reaper, executor>>
\* POST /submit with form data that fails validate_birth_data: 400
SubmitRejected ==
    /\ last = NoCall
    /\ NoReader
    /\ last' = [NoCall EXCEPT !.op = "submit", !.code = 400]
    /\ UNCHANGED <<jobs, now, nextId, task, calls, born, held, lock, reaper,
                   executor>>


SubmitTaskOnly ==
    /\ last = NoCall
    /\ NoReader
    /\ nextId < MaxJobs
    /\ executor.state = "open"
    /\ \E name \in Names :
         LET id == nextId + 1
         IN /\ jobs' = jobs
            /\ nextId' = id
            /\ task' = [task EXCEPT ![id] =
                          [NoTask EXCEPT !.kind = "chart", !.pc = "queued"]]
            /\ born' = [born EXCEPT ![id] = now]
            /\ last' = [NoCall EXCEPT !.op = "submit", !.id = id, !.code = 202]
            /\ lock = None /\ lock' = LockAfterWith(Request)
            /\ UNCHANGED <<now, calls, held, reaper, executor>>
\* POST /submit with valid form data: add the record, submit the task, 202
Submit ==
    /\ last = NoCall
    /\ NoReader
    /\ nextId < MaxJobs
    /\ executor.state = "open"
    /\ \E name \in Names :
         LET id == nextId + 1
         IN /\ jobs' = StoreAdd(jobs, id, "pending", "chart", None,
                                {<<"name", name>>}, now)
            /\ nextId' = id
            /\ task' = [task EXCEPT ![id] =
                          [NoTask EXCEPT !.kind = "chart", !.pc = "queued"]]
            /\ born' = [born EXCEPT ![id] = now]
            /\ last' = [NoCall EXCEPT !.op = "submit", !.id = id, !.code = 202]
            /\ lock = None /\ lock' = LockAfterWith(Request)
            /\ UNCHANGED <<now, calls, held, reaper, executor>>

\* POST /analyze
Analyze ==
    /\ last = NoCall
    /\ NoReader
    /\ \E req \in Requests :
      LET cj == RequestChartJobId(req)
          r == StoreGet(jobs, cj[1], now)
          id == nextId + 1
      IN IF cj = None
         THEN /\ last' = [NoCall EXCEPT !.op = "analyze", !.args = Some(req),
                                        !.code = 400]
              /\ UNCHANGED <<jobs, now, nextId, task, calls, born, held, lock,
                             reaper, executor>>
         ELSE IF r.ret = None
         THEN /\ jobs' = r.jobs
              /\ last' = [NoCall EXCEPT !.op = "analyze", !.args = Some(req),
                                        !.code = 404]
              /\ lock = None /\ lock' = LockAfterWith(Request)
              /\ UNCHANGED <<now, nextId, task, calls, born, held, reaper,
                             executor>>
         ELSE IF r.ret[1].status # "done"
         THEN /\ last' = [NoCall EXCEPT !.op = "analyze", !.args = Some(req),
                                        !.code = 400]
              /\ lock = None /\ lock' = LockAfterWith(Request)
              /\ UNCHANGED <<jobs, now, nextId, task, calls, born, held, reaper,
                             executor>>
         ELSE /\ nextId < MaxJobs
              /\ executor.state = "open"
              /\ jobs' = StoreAdd(r.jobs, id, "pending", "analysis", cj, {}, now)
              /\ nextId' = id
              /\ task' = [task EXCEPT ![id] =
                            [NoTask EXCEPT !.kind = "analysis", !.pc = "queued",
                                           !.param = cj]]
              /\ born' = [born EXCEPT ![id] = now]
              /\ last' = [NoCall EXCEPT !.op = "analyze", !.id = id,
                                        !.args = Some(req), !.code = 202]
              /\ lock = None /\ lock' = LockAfterWith(Request)
              /\ UNCHANGED <<now, calls, held, reaper, executor>>

\* GET /api/status/<job_id>, up to the return of job_store.get: 404 when the
\* job is not found, else the handler goes on holding the dict get returned
ApiStatus(k) ==
    LET r == StoreGet(jobs, k, now)
    IN /\ last = NoCall
       /\ NoReader
       /\ jobs' = r.jobs
       /\ last' = [NoCall EXCEPT !.op = "api_status", !.id = k, !.ret = r.ret,
                     !.code = IF r.ret = None THEN 404 ELSE 200]
       /\ held' = IF r.ret # None THEN Some([id |-> k]) ELSE None
       /\ lock = None /\ lock' = LockAfterWith(Request)
       /\ UNCHANGED <<now, nextId, task, calls, born, reaper, executor>>

\* the dict resp that api_status builds from the job dict
StatusResponse(job) ==
    LET base == [status |-> job.status, job_type |-> job.job_type,
                 substatus |-> job.substatus,
                 created_at |-> Some(job.created_at), error |-> job.error]
        chart == IF job.status = "done" /\ job.job_type = "chart"
                 THEN [filename |-> job.filename,
                       svg_available |-> TruthyStr(job.svg_path)]
                 ELSE [x \in {} |-> None]
        analysis == IF job.job_type = "analysis"
                    THEN [chart_job_id |-> job.chart_job_id,
                          analysis_progress |-> job.analysis_progress,
                          analysis_format |-> job.analysis_format,
                          analysis_started_at |-> job.analysis_started_at,
                          analysis_completed_at |-> job.analysis_completed_at]
                    ELSE [x \in {} |-> None]
        snippet == IF job.job_type = "analysis" /\ job.status = "done"
                      /\ TruthyStr(job.analysis_report)
                   THEN [analysis_report_snippet |-> job.analysis_report]
                   ELSE [x \in {} |-> None]
    IN Merge(Merge(Merge(base, chart), analysis), snippet)

\* GET /api/status/<job_id>, after job_store.get has returned the dict: the
\* handler reads the fields of the dict it holds and answers 200
ApiStatusBuild ==
    /\ last = NoCall
    /\ held # None
    /\ last' = [NoCall EXCEPT !.op = "status_body", !.id = held[1].id,
                  !.ret = Some(StatusResponse(Deref(held[1]))), !.code = 200]
    /\ held' = None
    /\ UNCHANGED <<jobs, now, nextId, task, calls, born, lock, reaper,
                   executor>>

\* GET /api/analysis/<job_id>: get of the job, 404 or 400, then get of its chart
ApiAnalysisStatus(k) ==
    LET r == StoreGet(jobs, k, now)
        haschart == r.ret # None /\ r.ret[1].job_type = "analysis"
                    /\ r.ret[1].chart_job_id # None
        r2 == StoreGet(r.jobs, r.ret[1].chart_job_id[1], now)
    IN /\ last = NoCall
       /\ NoReader
       /\ jobs' = IF haschart THEN r2.jobs ELSE r.jobs
       /\ last' = [NoCall EXCEPT !.op = "api_analysis", !.id = k, !.ret = r.ret,
                     !.code = IF r.ret = None THEN 404
                              ELSE IF r.ret[1].job_type # "analysis" THEN 400
                              ELSE 200]
       /\ lock = None /\ lock' = LockAfterWith(Request)
       /\ UNCHANGED <<now, nextId, task, calls, born, held, reaper, executor>>

(* ------------------------- reaper and clock ---------------------------- *)

\* cleanup_worker: one tick of the loop, after time.sleep(300)
ReaperTick ==
    LET r == StoreCleanupExpired(jobs, now)
    IN /\ last = NoCall
       /\ NoReader
       /\ reaper.state = "sleeping"
       /\ jobs' = r.jobs
       /\ last' = [NoCall EXCEPT !.op = "cleanup", !.ret = Some(r.ret)]
       /\ lock = None /\ lock' = LockAfterWith(Reaper)
       /\ UNCHANGED <<now, nextId, task, calls, born, held, reaper, executor>>


ReaperAfterExceptionDies(r) == [state |-> "dead", failed |-> r.failed + 1]

\* cleanup_worker after "except Exception as e": the error is logged and the
\* while loop goes back to time.sleep(300)
ReaperAfterException(r) == [r EXCEPT !.failed = @ + 1]

\* cleanup_worker: one tick in which cleanup_expired, or the logging after
\* it, raises; the exception leaves the store as it was if it comes before
\* the deletions and swept if it comes after them
ReaperTickFails ==
    /\ last = NoCall
    /\ NoReader
    /\ reaper.state = "sleeping"
    /\ reaper.failed < MaxFailures
    /\ \E swept \in BOOLEAN :
          jobs' = IF swept THEN StoreCleanupExpired(jobs, now).jobs ELSE jobs
    /\ reaper' = ReaperAfterException(reaper)
    /\ last' = [NoCall EXCEPT !.op = "cleanup_failed"]
    /\ lock = None /\ lock' = LockAfterWith(Reaper)
    /\ UNCHANGED <<now, nextId, task, calls, born, held, executor>>
\* time passes
Tick ==
    /\ last = NoCall
    /\ NoReader
    /\ now < MaxTime
    /\ now' = now + 1
    /\ UNCHANGED <<jobs, nextId, task, calls, born, last, held, lock, reaper,
                   executor>>

\* the caller has taken the result of the call held in last; a call and the
\* taking of its result are not interleaved with other steps
Respond ==
    /\ last # NoCall
    /\ last' = NoCall
    /\ UNCHANGED <<jobs, now, nextId, task, calls, born, held, lock, reaper,
                   executor>>

(* --------------------------- application ------------------------------- *)

Init ==
    /\ jobs = [k \in {} |-> None]
    /\ now = 0
    /\ nextId = 0
    /\ task = [i \in Ids |-> NoTask]
    /\ calls = [i \in Ids |-> << >>]
    /\ born = [i \in Ids |-> 0 - 1]
    /\ last = NoCall
    /\ held = None
    /\ lock = None
    /\ reaper = ReaperStarted
    /\ executor = ExecutorCreated

Next ==
    \/ SubmitRejected
    \/ Submit
    \/ Analyze
    \/ \E k \in PollIds : ApiStatus(k)
    \/ ApiStatusBuild
    \/ \E k \in PollIds : ApiAnalysisStatus(k)
    \/ \E id \in Ids : ChartStart(id)
    \/ \E id \in Ids : ChartValidate(id)
    \/ \E id \in Ids : ChartGenerate(id)
    \/ \E id \in Ids : AnalysisStart(id)
    \/ \E id \in Ids : AnalysisGetOwn(id)
    \/ \E id \in Ids : AnalysisGetChart(id)
    \/ \E id \in Ids : AnalysisProgress10(id)
    \/ \E id \in Ids : AnalysisProgress20(id)
    \/ \E id \in Ids : AnalysisLLM(id)
    \/ \E id \in Ids : AnalysisFinish(id)
    \/ ReaperTick
    \/ Tick
    \/ Respond

Spec == Init /\ [][Next]_vars

(* ------------------- generate_analysis_job on any store ---------------- *)

\* the handler of services/job_handlers.py takes the store it works on as an
\* argument: the chart record it finds there may be in any status and carry
\* any filename and svg_path.  ChartId is the chart's id, AnalysisId the id
\* of the analysis job.
ChartId == 1
AnalysisId == 2

\* the chart records a caller can build with add and update; a filename or
\* path is a sequence of tokens, so the empty string is << >>
ChartRecords ==
    {Merge(NewJob(st, "chart", None, md, 0), [filename |-> fn, svg_path |-> sp]) :
        st \in Statuses,
        md \in {{}, {<<"name", "Ann">>}},
        fn \in {None, Some(<< >>), Some(FileName("Ann", ChartId))},
        sp \in {None, Some(<< >>),
                Some(<<"generated_charts/">> \o FileName("Ann", ChartId))}}

\* job_store.add(AnalysisId, job_type='analysis', chart_job_id=cj) on a store
\* that holds a chart record or none, then the task is handed the argument
\* chart_job_id=param
InitHandler ==
    /\ \E cj \in {None, Some(ChartId), Some(MaxJobs + 1)},
          cs \in {[k \in {} |-> None]}
                 \cup {[k \in {ChartId} |-> c] : c \in ChartRecords} :
          jobs = StoreAdd(cs, AnalysisId, "pending", "analysis", cj, {}, 0)
    /\ \E param \in {None, Some(ChartId)} :
          task = [i \in Ids |->
                    IF i = AnalysisId
                    THEN [NoTask EXCEPT !.kind = "analysis", !.pc = "queued",
                                        !.param = param]
                    ELSE NoTask]
    /\ now = 0
    /\ nextId = AnalysisId
    /\ calls = [i \in Ids |-> << >>]
    /\ born = [i \in Ids |-> IF i \in DOMAIN jobs THEN 0 ELSE 0 - 1]
    /\ last = NoCall
    /\ held = None
    /\ lock = None
    /\ reaper = ReaperStarted
    /\ executor = ExecutorCreated

NextHandler ==
    \/ \E id \in Ids : AnalysisStart(id)
    \/ \E id \in Ids : AnalysisGetOwn(id)
    \/ \E id \in Ids : AnalysisGetChart(id)
    \/ \E id \in Ids : AnalysisProgress10(id)
    \/ \E id \in Ids : AnalysisProgress20(id)
    \/ \E id \in Ids : AnalysisLLM(id)
    \/ \E id \in Ids : AnalysisFinish(id)
    \/ ReaperTick
    \/ Tick
    \/ Respond

HandlerSpec == InitHandler /\ [][NextHandler]_vars



(* ------------------- more jobs than executor threads ------------------- *)

\* the jobs of a burst of accepted /analyze requests, more than the executor
\* has threads, and the id of the chart they all name
PoolIds == 1..(MaxWorkers + MaxJobs - 1)
PoolChartId == MaxWorkers + MaxJobs

\* every request of the burst was accepted at time RetentionSeconds:
\* job_store.add(id, status='pending', job_type='analysis', chart_job_id=...)
\* and executor.submit(generate_analysis_job, id, chart_job_id, ...); the
\* chart record, older than the analysis records, has since expired and been
\* evicted, and no task has been started yet
InitPool ==
    /\ now = RetentionSeconds + 1
    /\ jobs = [i \in PoolIds |->
                 NewJob("pending", "analysis", Some(PoolChartId), {},
                        RetentionSeconds)]
    /\ task = [i \in PoolIds |->
                 [NoTask EXCEPT !.kind = "analysis", !.pc = "queued",
                                !.param = Some(PoolChartId)]]
    /\ nextId = PoolChartId
    /\ calls = [i \in PoolIds |-> << >>]
    /\ born = [i \in PoolIds |-> RetentionSeconds]
    /\ last = NoCall
    /\ held = None
    /\ lock = None
    /\ reaper = ReaperStarted
    /\ executor = ExecutorCreated

NextPool ==
    \/ \E id \in PoolIds : AnalysisStart(id)
    \/ \E id \in PoolIds : AnalysisGetOwn(id)
    \/ \E id \in PoolIds : AnalysisGetChart(id)
    \/ Respond

PoolSpec == InitPool /\ [][NextPool]_vars

(* --------------------- the reaper with failing ticks ------------------- *)

\* the records are those of accepted /submit requests; what their tasks do
\* is of no concern to the reaper, which only reads created_at
NextReaper ==
    \/ Submit
    \/ \E id \in Ids : ChartStart(id)
    \/ ReaperTick
    \/ ReaperTickFails
    \/ Tick
    \/ Respond

\* the cleanup_worker thread runs on its own: whenever its tick can be taken
\* again and again it is taken (time.sleep(300) returns); a call that has
\* been made returns
ReaperSpec ==
    /\ Init
    /\ [][NextReaper]_vars
    /\ SF_vars(ReaperTick \/ ReaperTickFails)
    /\ WF_vars(Respond)

(* ------------------------ shutdown of the executor --------------------- *)

\* POST /submit after executor.shutdown has been called: the record is added,
\* then executor.submit raises RuntimeError (cannot schedule new futures
\* after shutdown), which the route does not catch: 500, and no task
SubmitRefused ==
    /\ last = NoCall
    /\ NoReader
    /\ nextId < MaxJobs
    /\ executor.state # "open"
    /\ \E name \in Names :
         LET id == nextId + 1
         IN /\ jobs' = StoreAdd(jobs, id, "pending", "chart", None,
                                {<<"name", name>>}, now)
            /\ nextId' = id
            /\ born' = [born EXCEPT ![id] = now]
            /\ last' = [NoCall EXCEPT !.op = "submit", !.id = id, !.code = 500]
            /\ lock = None /\ lock' = LockAfterWith(Request)
            /\ UNCHANGED <<now, task, calls, held, reaper, executor>>

\* shutdown_executor, run at exit: executor.shutdown(wait=True) is called
ShutdownStart ==
    /\ last = NoCall
    /\ NoReader
    /\ executor.state = "open"
    /\ executor' = [state |-> "shutdown",
                    queued |-> {i \in DOMAIN task : task[i].pc = "queued"},
                    running |-> Active]
    /\ UNCHANGED <<jobs, now, nextId, task, calls, born, last, held, lock,
                   reaper>>

DrainedNoWait == TRUE

\* wait=True: every worker thread has been joined, which it is once the
\* queue of work items is empty and no task body is running
Drained == \A i \in DOMAIN task : task[i].pc \in {"none", "returned"}

\* executor.shutdown(wait=True) returns
ShutdownComplete ==
    /\ last = NoCall
    /\ NoReader
    /\ executor.state = "shutdown"
    /\ Drained
    /\ executor' = [executor EXCEPT !.state = "closed"]
    /\ UNCHANGED <<jobs, now, nextId, task, calls, born, last, held, lock,
                   reaper>>

NextShutdown ==
    \/ Submit
    \/ SubmitRefused
    \/ \E id \in Ids : ChartStart(id)
    \/ \E id \in Ids : ChartValidate(id)
    \/ \E id \in Ids : ChartGenerate(id)
    \/ ShutdownStart
    \/ ShutdownComplete
    \/ Respond

ShutdownSpec == Init /\ [][NextShutdown]_vars

(* ------------------- add for an id already in the store ---------------- *)

\* a caller of the store calls job_store.add(id, status=..., job_type=...)
\* for an id that is in the store, while the task of the earlier record may
\* still be queued or running; the id taken is that of the first job
ReAdd(id) ==
    /\ last = NoCall
    /\ NoReader
    /\ id \in DOMAIN jobs
    /\ \E status \in Statuses, job_type \in {"chart", "analysis"} :
          /\ jobs' = StoreAdd(jobs, id, status, job_type, None, {}, now)
          /\ last' = [NoCall EXCEPT !.op = "add", !.id = id, !.code = 1,
                        !.args = Some([status |-> status,
                                       job_type |-> job_type])]
    /\ lock = None /\ lock' = LockAfterWith(Request)
    /\ UNCHANGED <<now, nextId, task, calls, born, held, reaper, executor>>

NextReAdd ==
    \/ Submit
    \/ ReAdd(ChartId)
    \/ \E id \in Ids : ChartStart(id)
    \/ \E id \in Ids : ChartValidate(id)
    \/ \E id \in Ids : ChartGenerate(id)
    \/ Respond

ReAddSpec == Init /\ [][NextReAdd]_vars

(* ------------- /api/status with the reads of the dict apart ------------ *)

\* api_status reads the dict it holds one field after the other, without the
\* lock: here the read of job['status'] for resp['status'] is a step of its
\* own, and the handler keeps the value it read
ApiStatusReadStatus ==
    /\ last = NoCall
    /\ held # None
    /\ DOMAIN held[1] = {"id"}
    /\ held' = Some([id |-> held[1].id, status |-> Deref(held[1]).status])
    /\ UNCHANGED <<jobs, now, nextId, task, calls, born, last, lock, reaper,
                   executor>>

\* the remaining reads of api_status and its answer: resp['status'] is the
\* value read before, every other entry is read from the dict now
ApiStatusFinish ==
    /\ last = NoCall
    /\ held # None
    /\ "status" \in DOMAIN held[1]
    /\ last' = [NoCall EXCEPT !.op = "status_body", !.id = held[1].id,
                  !.ret = Some([StatusResponse(Deref(held[1]))
                                  EXCEPT !.status = held[1].status]),
                  !.code = 200]
    /\ held' = None
    /\ UNCHANGED <<jobs, now, nextId, task, calls, born, lock, reaper,
                   executor>>

NextTorn ==
    \/ Submit
    \/ \E id \in Ids : ChartStart(id)
    \/ \E id \in Ids : ChartValidate(id)
    \/ \E id \in Ids : ChartGenerate(id)
    \/ \E k \in PollIds : ApiStatus(k)
    \/ ApiStatusReadStatus
    \/ ApiStatusFinish
    \/ Respond

TornSpec == Init /\ [][NextTorn]_vars

(* --------- the handlers of app.py and of services/job_handlers.py ------ *)

\* A run of a handler from start to return on the store js, with no other
\* thread in between: the update calls it issues, in order, and the store it
\* leaves.  v, g and llm are the outcomes of the collaborators.
RunResult(js, id, seq) == [updates |-> seq, jobs |-> ApplyUpdates(js, id, seq)]

\* app.generate_chart_job(job_id, form_data)
AppChartRun(js, id, v, g, name) ==
    IF ~v.ok
    THEN RunResult(js, id, <<ChartRunningUpdate>> \o ChartErrorUpdates(v.exc))
    ELSE IF ~g.ok
    THEN RunResult(js, id, <<ChartRunningUpdate>> \o ChartErrorUpdates(g.exc))
    ELSE RunResult(js, id, <<ChartRunningUpdate,
                             ChartDoneUpdate(ChartResult(name, id))>>)

\* the three except clauses of job_handlers.generate_chart_job
SvcChartExcept(e) ==
    IF e.cls = "ValueError"
    THEN [status |-> "error", filename |-> None, svg_path |-> None,
          error |-> Some(e.msg)]
    ELSE IF e.cls = "FileNotFoundError"
    THEN [status |-> "error", filename |-> None, svg_path |-> None,
          error |-> Some("Chart generation failed: " \o e.msg)]
    ELSE [status |-> "error", filename |-> None, svg_path |-> None,
          error |-> Some("Unexpected error: " \o e.msg)]

SvcChartRunNoSubstatus(js, id, v, g, name) ==
    LET running == [status |-> "running"]
        result == ChartResult(name, id)
    IN IF ~v.ok
       THEN RunResult(js, id, <<running, SvcChartExcept(v.exc)>>)
       ELSE IF ~g.ok
       THEN RunResult(js, id, <<running, SvcChartExcept(g.exc)>>)
       ELSE RunResult(js, id,
              <<running,
                [status |-> "done", substatus |-> Some("chart_done"),
                 filename |-> result.filename, svg_path |-> result.svg_path,
                 error |-> None]>>)

\* job_handlers.generate_chart_job(job_id, form_data, validate_fn=...,
\* chart_fn=..., job_store=...)
SvcChartRun(js, id, v, g, name) ==
    LET running == [status |-> "running", substatus |-> Some("chart_running")]
        result == ChartResult(name, id)
    IN IF ~v.ok
       THEN RunResult(js, id, <<running, SvcChartExcept(v.exc)>>)
       ELSE IF ~g.ok
       THEN RunResult(js, id, <<running, SvcChartExcept(g.exc)>>)
       ELSE RunResult(js, id,
              <<running,
                [status |-> "done", substatus |-> Some("chart_done"),
                 filename |-> result.filename, svg_path |-> result.svg_path,
                 error |-> None]>>)

\* app.generate_analysis_job(job_id, chart_job_id, analysis_options) at
\* time t
AppAnalysisRun(js, id, chart_job_id, llm, t) ==
    LET started == <<AnalysisRunningUpdate(t)>>
        own == StoreGet(ApplyUpdates(js, id, started), id, t)
        stored == IF own.ret # None
                  THEN StoredChartJobId(own.ret[1], chart_job_id)
                  ELSE None
        Raise(store, seq, e) ==
            RunResult(store, id, seq \o AnalysisErrorUpdates(e, t))
    IN IF own.ret = None
       THEN [Raise(own.jobs, << >>, Exc("ValueError", "Analysis job not found"))
               EXCEPT !.updates = started \o @]
       ELSE IF stored = None
       THEN [Raise(own.jobs, << >>,
                   Exc("ValueError",
                       "chart_job_id not provided and not found in job metadata"))
               EXCEPT !.updates = started \o @]
       ELSE
         LET chart == StoreGet(own.jobs, stored[1], t)
             Out(seq) == [RunResult(chart.jobs, id, seq)
                            EXCEPT !.updates = started \o @]
         IN IF chart.ret = None
            THEN Out(AnalysisErrorUpdates(ChartMissingError(stored[1]), t))
            ELSE IF ~ChartAvailable(chart.ret[1])
            THEN Out(AnalysisErrorUpdates(ChartUnavailableError, t))
            ELSE
              LET pn == PersonName(chart.ret[1])
              IN IF ~pn.ok
                 THEN Out(<<ProgressUpdate(10)>>
                          \o AnalysisErrorUpdates(pn.exc, t))
                 ELSE IF ~llm.ok
                 THEN Out(<<ProgressUpdate(10), ProgressUpdate(20)>>
                          \o AnalysisErrorUpdates(llm.exc, t))
                 ELSE Out(<<ProgressUpdate(10), ProgressUpdate(20),
                            ProgressUpdate(90), AnalysisDoneUpdate(Report, t)>>)

\* the except clause of job_handlers.generate_analysis_job
SvcAnalysisExcept(e, t) ==
    [status |-> "error", substatus |-> Some("analysis_error"),
     error |-> Some(e.msg), analysis_completed_at |-> Some(t)]

\* person_name of job_handlers.generate_analysis_job
SvcPersonName(chart_job) ==
    LET name == MetaGet(chart_job.metadata, "name")
    IN IF chart_job.metadata # {} /\ name # None /\ name # Some("")
       THEN [ok |-> TRUE, val |-> name[1], exc |-> Exc("", "")]
       ELSE IF chart_job.filename = None
       THEN [ok |-> FALSE, val |-> "",
             exc |-> Exc("Exception",
                         "'NoneType' object has no attribute 'replace'")]
       ELSE [ok |-> TRUE, val |-> NameFromFilename(chart_job.filename[1]),
             exc |-> Exc("", "")]

\* job_handlers.generate_analysis_job(job_id, chart_job_id=...,
\* analysis_options=..., llm_analyzer=..., job_store=...) at time t
SvcAnalysisRun(js, id, chart_job_id, llm, t) ==
    LET running == [status |-> "running",
                    substatus |-> Some("analysis_running"),
                    analysis_started_at |-> Some(t), analysis_progress |-> 0]
        js1 == StoreUpdate(js, id, running)
        analysis_job == StoreGet(js1, id, t)
    IN IF analysis_job.ret = None
       THEN LET e == Exc("ValueError", "Analysis job not found")
            IN [updates |-> <<running, SvcAnalysisExcept(e, t)>>,
                jobs |-> StoreUpdate(analysis_job.jobs, id,
                                     SvcAnalysisExcept(e, t))]
       ELSE
         LET stored_chart_job_id ==
                 IF analysis_job.ret[1].chart_job_id # None
                 THEN analysis_job.ret[1].chart_job_id
                 ELSE chart_job_id
         IN IF stored_chart_job_id = None
            THEN LET e == Exc("ValueError",
                     "chart_job_id not provided and not found in job metadata")
                 IN [updates |-> <<running, SvcAnalysisExcept(e, t)>>,
                     jobs |-> StoreUpdate(analysis_job.jobs, id,
                                          SvcAnalysisExcept(e, t))]
            ELSE
              LET chart_job == StoreGet(analysis_job.jobs,
                                        stored_chart_job_id[1], t)
                  Run(seq) == [updates |-> <<running>> \o seq,
                               jobs |-> ApplyUpdates(chart_job.jobs, id, seq)]
              IN IF chart_job.ret = None
                 THEN Run(<<SvcAnalysisExcept(
                        Exc("ValueError",
                            "Referenced chart job not found or expired: "
                            \o ToString(stored_chart_job_id[1])), t)>>)
                 ELSE IF chart_job.ret[1].status # "done"
                         \/ chart_job.ret[1].svg_path = None
                         \/ chart_job.ret[1].svg_path = Some("")
                 THEN Run(<<SvcAnalysisExcept(
                        Exc("ValueError",
                            "Referenced chart is not available (chart must be done)"),
                        t)>>)
                 ELSE
                   LET person_name == SvcPersonName(chart_job.ret[1])
                   IN IF ~person_name.ok
                      THEN Run(<<[analysis_progress |-> 10],
                                 SvcAnalysisExcept(person_name.exc, t)>>)
                      ELSE IF ~llm.ok
                      THEN Run(<<[analysis_progress |-> 10],
                                 [analysis_progress |-> 20],
                                 SvcAnalysisExcept(llm.exc, t)>>)
                      ELSE Run(<<[analysis_progress |-> 10],
                                 [analysis_progress |-> 20],
                                 [analysis_progress |-> 90],
                                 [analysis_report |-> Some(Report),
                                  analysis_format |-> Some("markdown"),
                                  analysis_progress |-> 100,
                                  analysis_completed_at |-> Some(t),
                                  substatus |-> Some("analysis_done"),
                                  status |-> "done"]>>)

\* both handlers of a kind are run on the store as it is, for the same
\* outcomes of the collaborators; the store continues as the application's
\* handler leaves it
RunChartHandlers ==
    /\ last = NoCall
    /\ ChartId \in DOMAIN jobs
    /\ \E v \in ValidateOutcomes, g \in GenerateOutcomes, name \in Names :
         LET app == AppChartRun(jobs, ChartId, v, g, name)
             svc == SvcChartRun(jobs, ChartId, v, g, name)
         IN /\ last' = [NoCall EXCEPT !.op = "chart_handlers", !.id = ChartId,
                          !.ret = Some([app |-> app, svc |-> svc])]
            /\ jobs' = app.jobs
    /\ UNCHANGED <<now, nextId, task, calls, born, held, lock, reaper, executor>>

RunAnalysisHandlers ==
    /\ last = NoCall
    /\ \E llm \in LLMOutcomes :
         LET app == AppAnalysisRun(jobs, AnalysisId, task[AnalysisId].param,
                                   llm, now)
             svc == SvcAnalysisRun(jobs, AnalysisId, task[AnalysisId].param,
                                   llm, now)
         IN /\ last' = [NoCall EXCEPT !.op = "analysis_handlers",
                          !.id = AnalysisId,
                          !.ret = Some([app |-> app, svc |-> svc])]
            /\ jobs' = app.jobs
    /\ UNCHANGED <<now, nextId, task, calls, born, held, lock, reaper, executor>>

NextBothHandlers ==
    \/ RunChartHandlers
    \/ RunAnalysisHandlers
    \/ Tick
    \/ Respond

BothHandlersSpec == InitHandler /\ [][NextBothHandlers]_vars

(* ------------------- retention without any reader ---------------------- *)

\* the last instant of the clock: late enough for a record created at
\* MaxTime to be older than the retention period
LastTime == MaxTime + RetentionSeconds + 1

\* POST /submit up to MaxTime
SubmitInTime ==
    /\ now <= MaxTime
    /\ Submit

\* the clock advances up to LastTime
TickOn ==
    /\ last = NoCall
    /\ NoReader
    /\ now < LastTime
    /\ now' = now + 1
    /\ UNCHANGED <<jobs, nextId, task, calls, born, last, held, lock, reaper,
                   executor>>

\* no route that calls get is ever requested: only the chart tasks, which
\* call update alone, and the reaper touch the store after add.  The task of
\* the first job is followed through its statuses; the tasks of the later
\* jobs stay queued and their records pending.
NextRetention ==
    \/ SubmitInTime
    \/ ChartStart(ChartId)
    \/ ChartValidate(ChartId)
    \/ ChartGenerate(ChartId)
    \/ ReaperTick
    \/ TickOn
    \/ Respond

\* time passes whatever the threads do, and the cleanup_worker thread takes
\* its tick whenever it can be taken again and again (time.sleep(300)
\* returns): neither waits for the other, so both are taken however the
\* calls in progress alternate; a call that has been made returns.  Nothing
\* is assumed of the tasks.
RetentionSpec ==
    /\ Init
    /\ [][NextRetention]_vars
    /\ SF_vars(TickOn)
    /\ SF_vars(ReaperTick)
    /\ WF_vars(Respond)

(* ------------- /analyze on the id of an analysis job ------------------- *)

\* the id of the analysis job that has finished, and the id of its chart
DoneAnalysisId == 1
GoneChartId == MaxJobs + 1

\* the store after /submit, the chart task, /analyze and the analysis task
\* have run to the end and the chart record, the older of the two, has been
\* removed: the record of the analysis job, in status done
InitAdmission ==
    /\ jobs = ApplyUpdates(
                StoreAdd([k \in {} |-> None], DoneAnalysisId, "pending",
                         "analysis", Some(GoneChartId), {}, 0),
                DoneAnalysisId,
                <<AnalysisRunningUpdate(0), ProgressUpdate(10),
                  ProgressUpdate(20), ProgressUpdate(90),
                  AnalysisDoneUpdate(Report, 0)>>)
    /\ task = [i \in Ids |->
                 IF i = DoneAnalysisId
                 THEN [NoTask EXCEPT
                         !.kind = "analysis", !.pc = "returned",
                         !.param = Some(GoneChartId),
                         !.cid = Some(GoneChartId),
                         !.chart = Some([filename |->
                                           Some(FileName("Ann", GoneChartId)),
                                         metadata |-> {<<"name", "Ann">>}]),
                         !.report = Some(Report), !.ext = {"llm"}]
                 ELSE NoTask]
    /\ now = 0
    /\ nextId = DoneAnalysisId
    /\ calls = [i \in Ids |->
                  IF i = DoneAnalysisId THEN <<"running", "done">> ELSE << >>]
    /\ born = [i \in Ids |-> IF i = DoneAnalysisId THEN 0 ELSE 0 - 1]
    /\ last = NoCall
    /\ held = None
    /\ lock = None
    /\ reaper = ReaperStarted
    /\ executor = ExecutorCreated

NextAdmission ==
    \/ Analyze
    \/ \E id \in Ids : AnalysisStart(id)
    \/ \E id \in Ids : AnalysisGetOwn(id)
    \/ \E id \in Ids : AnalysisGetChart(id)
    \/ \E k \in PollIds : ApiStatus(k)
    \/ ApiStatusBuild
    \/ Tick
    \/ Respond

AdmissionSpec == InitAdmission /\ [][NextAdmission]_vars
(* -------------------- termination of the tasks ------------------------- *)

\* one step of a task on an executor thread
WorkerStep ==
    \E id \in Ids :
       \/ ChartStart(id)
       \/ ChartValidate(id)
       \/ ChartGenerate(id)
       \/ AnalysisStart(id)
       \/ AnalysisGetOwn(id)
       \/ AnalysisGetChart(id)
       \/ AnalysisProgress10(id)
       \/ AnalysisProgress20(id)
       \/ AnalysisLLM(id)
       \/ AnalysisFinish(id)

\* a client polls GET /api/status/<job_id> for the id it was given
Poll(id) ==
    /\ born[id] >= 0
    /\ ApiStatus(id)

\* the jobs followed are a chart job and, after it, an analysis job
SubmitFirst ==
    /\ nextId = 0
    /\ Submit

AnalyzeSecond ==
    /\ nextId = 1
    /\ Analyze

NextTermination ==
    \/ SubmitFirst
    \/ AnalyzeSecond
    \/ WorkerStep
    \/ \E id \in Ids : Poll(id)
    \/ ApiStatusBuild
    \/ Tick
    \/ Respond

\* the executor threads are scheduled: a task that can take a step again and
\* again takes one (every external call returns or raises, which is a step);
\* the client of each job keeps polling; a request that holds the dict builds
\* its answer; a call that has been made returns.  Nothing is assumed of the
\* clock.
TerminationSpec ==
    /\ Init
    /\ [][NextTermination]_vars
    /\ SF_vars(WorkerStep)
    /\ \A id \in Ids : SF_vars(Poll(id))
    /\ SF_vars(ApiStatusBuild)
    /\ WF_vars(Respond)
(* ------------------------------ claims --------------------------------- *)

\* C1: once generate_chart_job or generate_analysis_job has returned, the
\* job's record, if it is still in the store, has status done or error,
\* whatever the outcome of the task body was.
C1_ReturnedIsTerminal ==
    \A id \in Ids :
        (task[id].pc = "returned" /\ id \in DOMAIN jobs)
            => jobs[id].status \in Terminal

C1_Witness ==
    \E id \in Ids :
        /\ task[id].pc = "returned" /\ id \in DOMAIN jobs
        /\ jobs[id].status = "error"
        /\ jobs[id].error = Some("Unexpected error: boom")

ChartResultEmpty(j) == j.filename = None /\ j.svg_path = None
ChartResultSet(j) == j.filename # None /\ j.svg_path # None

\* C2 as stated: analysis_progress counts as a result field, so it has to be
\* unpopulated (0) while the status is pending, running or error.
C2_Original ==
    \A id \in DOMAIN jobs :
        LET j == jobs[id]
            empty == IF j.job_type = "chart" THEN ChartResultEmpty(j)
                     ELSE /\ j.analysis_report = None
                          /\ j.analysis_format = None
                          /\ j.analysis_progress = 0
            set == IF j.job_type = "chart" THEN ChartResultSet(j)
                   ELSE /\ j.analysis_report # None
                        /\ j.analysis_format # None
                        /\ j.analysis_progress # 0
        IN /\ j.status \in {"pending", "running"} => (j.error = None /\ empty)
           /\ j.status = "done" => (set /\ j.error = None)
           /\ j.status = "error" => (j.error # None /\ empty)

\* C2 amended: while status is pending or running the error field and the
\* result fields (filename, svg_path of a chart job; analysis_report,
\* analysis_format of an analysis job) are None; when status is done they are
\* set and error is None; when status is error the error field is set and
\* they are None.  analysis_progress is a progress marker: 0 while pending,
\* one of 0, 10, 20, 90 while running or error, and 100 when done.
C2_Amended ==
    \A id \in DOMAIN jobs :
        LET j == jobs[id]
            empty == IF j.job_type = "chart" THEN ChartResultEmpty(j)
                     ELSE j.analysis_report = None /\ j.analysis_format = None
            set == IF j.job_type = "chart" THEN ChartResultSet(j)
                   ELSE j.analysis_report # None /\ j.analysis_format # None
        IN /\ j.status \in {"pending", "running"} => (j.error = None /\ empty)
           /\ j.status = "done" => (set /\ j.error = None)
           /\ j.status = "error" => (j.error # None /\ empty)
           /\ j.status = "pending" => j.analysis_progress = 0
           /\ j.status \in {"running", "error"}
                => j.analysis_progress \in {0, 10, 20, 90}
           /\ (j.status = "done" /\ j.job_type = "analysis")
                => j.analysis_progress = 100

C2_Witness ==
    \E id \in DOMAIN jobs :
        /\ jobs[id].job_type = "analysis" /\ jobs[id].status = "error"
        /\ jobs[id].analysis_progress = 20 /\ jobs[id].error # None

\* C3: once a record's status is done or error no step changes its status;
\* the record leaves that state only by being removed, and it is removed
\* only when its age exceeds the retention period.
C3_TerminalIsFinal ==
    [][\A id \in DOMAIN jobs :
          jobs[id].status \in Terminal =>
             IF id \in DOMAIN jobs'
             THEN jobs'[id].status = jobs[id].status
             ELSE now - jobs[id].created_at > RetentionSeconds]_vars

C3_Witness ==
    \E id \in DOMAIN jobs :
        /\ jobs[id].status \in Terminal
        /\ now - jobs[id].created_at = RetentionSeconds
        /\ last.op = "cleanup"
        /\ \E other \in Ids : task[other].pc \notin {"none", "returned"}

\* C4: each execution of a worker task passes a terminal status (done or
\* error) to JobStore.update exactly once, on every path, and after the call
\* that passes status running.
C4_OneTerminalUpdate ==
    \A id \in Ids :
        /\ Len(SelectSeq(calls[id], LAMBDA s : s \in Terminal)) <= 1
        /\ task[id].pc = "returned" =>
             /\ Len(calls[id]) = 2
             /\ calls[id][1] = "running"
             /\ calls[id][2] \in Terminal

C4_Witness ==
    \E id \in Ids :
        /\ task[id].kind = "analysis" /\ task[id].pc = "returned"
        /\ calls[id] = <<"running", "error">>

\* C5: a get (made by a status route) returns the record if and only if the
\* id was added and now - created_at <= retention period, whether or not the
\* reaper has run.
C5_VisibleIffYoung ==
    last.op \in {"api_status", "api_analysis"} =>
        (last.ret # None <=>
            /\ last.id \in Ids
            /\ born[last.id] >= 0
            /\ now - born[last.id] <= RetentionSeconds)

C5_Witness ==
    /\ last.op = "api_status" /\ last.ret # None
    /\ now - born[last.id] = RetentionSeconds

\* C6: created_at is the time of add and no get, update or cleanup changes
\* it, so a record that has been read and updated is still not returned once
\* its age exceeds the retention period.
C6_CreatedAtFixed ==
    /\ \A id \in DOMAIN jobs : jobs[id].created_at = born[id]
    /\ (last.op \in {"api_status", "api_analysis"} /\ last.ret # None)
          => now - born[last.id] <= RetentionSeconds

C6_Witness ==
    \E id \in DOMAIN jobs :
        /\ last.op = "api_status" /\ last.id = id /\ last.ret # None
        /\ jobs[id].status \in Terminal
        /\ now > born[id]

\* C7: an update on a present record overwrites exactly the given fields and
\* leaves every other field of that record as it was.
C7_UpdateMerges ==
    [][\A id \in Ids :
          (last'.op = "update" /\ last'.id = id /\ last'.code = 1) =>
             /\ id \in DOMAIN jobs /\ id \in DOMAIN jobs'
             /\ DOMAIN jobs'[id] = DOMAIN jobs[id] \cup DOMAIN last'.args[1]
             /\ \A f \in DOMAIN jobs'[id] :
                   jobs'[id][f] = IF f \in DOMAIN last'.args[1]
                                  THEN last'.args[1][f]
                                  ELSE jobs[id][f]]_vars

\* the record shows the fields of two successive updates
C7_Witness ==
    \E id \in DOMAIN jobs :
        /\ last.op = "update" /\ last.id = id /\ last.code = 1
        /\ last.args = Some([analysis_progress |-> 10])
        /\ jobs[id].analysis_progress = 10
        /\ jobs[id].status = "running"
        /\ jobs[id].substatus = Some("analysis_running")
        /\ jobs[id].analysis_started_at # None

\* C8: an update for an id that is not in the store creates no record and
\* changes none; an id whose record was evicted never becomes present again.
C8_NoResurrection ==
    [][/\ \A id \in Ids :
             (task[id].pc # "none" /\ id \notin DOMAIN jobs)
                => id \notin DOMAIN jobs'
       /\ (last'.op = "update" /\ last'.code = 0) =>
             /\ DOMAIN jobs' \subseteq DOMAIN jobs
             /\ \A k \in DOMAIN jobs' : jobs'[k] = jobs[k]]_vars

C8_Witness ==
    /\ last.op = "update" /\ last.code = 0
    /\ "status" \in DOMAIN last.args[1]
    /\ last.args[1].status = "done"
    /\ last.id \notin DOMAIN jobs

\* C9: a get that follows add(id, job_type=t) before any update returns a
\* record with status pending, job_type t, the substatus t maps to, the
\* given chart_job_id, and no error, no result and progress 0.
C9_FreshRecord ==
    \A id \in Ids :
        (/\ last.op = "api_status" /\ last.id = id
         /\ task[id].pc = "queued"
         /\ now - born[id] <= RetentionSeconds) =>
            /\ last.ret # None
            /\ LET r == last.ret[1]
               IN /\ r.status = "pending"
                  /\ r.job_type = task[id].kind
                  /\ r.substatus = Some(IF task[id].kind = "chart"
                                        THEN "chart_pending"
                                        ELSE "analysis_pending")
                  /\ r.chart_job_id = task[id].param
                  /\ r.error = None /\ r.filename = None /\ r.svg_path = None
                  /\ r.analysis_report = None /\ r.analysis_progress = 0

C9_Witness ==
    /\ last.op = "api_status" /\ last.id \in Ids /\ last.ret # None
    /\ task[last.id].kind = "analysis" /\ task[last.id].pc = "queued"
    /\ last.ret[1].chart_job_id # None

\* C10: for an id that was never added, get returns None and creates no
\* record, and both status routes answer 404.
C10_UnknownIdNotFound ==
    (/\ last.op \in {"api_status", "api_analysis"}
     /\ (last.id \notin Ids \/ task[last.id].pc = "none")) =>
        /\ last.ret = None
        /\ last.code = 404
        /\ last.id \notin DOMAIN jobs

C10_Witness ==
    /\ last.op = "api_analysis" /\ last.id = MaxJobs + 1
    /\ last.code = 404
    /\ DOMAIN jobs # {}

\* C11: a cleanup_expired call removes exactly the records whose age exceeds
\* the retention period, returns how many it removed and leaves every other
\* record as it was; a get for an id that is not in the store returns None.
C11_CleanupExact ==
    [][/\ last'.op = "cleanup" =>
             /\ DOMAIN jobs' =
                   {k \in DOMAIN jobs : now - born[k] <= RetentionSeconds}
             /\ last'.ret = Some(Cardinality(DOMAIN jobs \ DOMAIN jobs'))
             /\ \A k \in DOMAIN jobs' : jobs'[k] = jobs[k]
       /\ (last'.op \in {"api_status", "api_analysis"}
            /\ last'.id \notin DOMAIN jobs) => last'.ret = None]_vars

\* a sweep that removed one record and left a younger one
C11_Witness ==
    /\ last.op = "cleanup" /\ last.ret = Some(1)
    /\ \E k \in DOMAIN jobs : now - born[k] <= RetentionSeconds
    /\ \E k \in Ids : born[k] >= 0 /\ k \notin DOMAIN jobs

\* C12: while a caller holds the value get returned, no step of another
\* thread changes that value.
C12_GetIsSnapshot ==
    [][(held # None /\ held' # None) =>
          jobs'[held'[1].id] = Deref(held[1])]_vars

\* C13: the record a get returns shows, for every update call of the job's
\* task, either none or all of the fields of that call: it is the record as
\* added, as left by the running update, by a progress update, by the done
\* update or by the error update, never a mixture (never status done with
\* filename None).
C13_GetSeesWholeUpdates ==
    (last.op \in {"api_status", "api_analysis"} /\ last.ret # None) =>
        LET r == last.ret[1]
        IN IF r.job_type = "chart"
           THEN \/ /\ r.status = "pending" /\ r.substatus = Some("chart_pending")
                   /\ r.filename = None /\ r.svg_path = None /\ r.error = None
                \/ /\ r.status = "running" /\ r.substatus = Some("chart_running")
                   /\ r.filename = None /\ r.svg_path = None /\ r.error = None
                \/ /\ r.status = "done" /\ r.substatus = Some("chart_done")
                   /\ r.filename # None /\ r.error = None
                   /\ r.svg_path = Some(<<"generated_charts/">> \o r.filename[1])
                \/ /\ r.status = "error" /\ r.substatus = Some("chart_running")
                   /\ r.filename = None /\ r.svg_path = None /\ r.error # None
           ELSE \/ /\ r.status = "pending" /\ r.substatus = Some("analysis_pending")
                   /\ r.analysis_started_at = None /\ r.analysis_progress = 0
                   /\ r.analysis_report = None /\ r.analysis_format = None
                   /\ r.analysis_completed_at = None /\ r.error = None
                \/ /\ r.status = "running" /\ r.substatus = Some("analysis_running")
                   /\ r.analysis_started_at # None
                   /\ r.analysis_progress \in {0, 10, 20, 90}
                   /\ r.analysis_report = None /\ r.analysis_format = None
                   /\ r.analysis_completed_at = None /\ r.error = None
                \/ /\ r.status = "done" /\ r.substatus = Some("analysis_done")
                   /\ r.analysis_started_at # None /\ r.analysis_progress = 100
                   /\ r.analysis_report = Some(Report)
                   /\ r.analysis_format = Some("markdown")
                   /\ r.analysis_completed_at # None /\ r.error = None
                \/ /\ r.status = "error" /\ r.substatus = Some("analysis_error")
                   /\ r.analysis_started_at # None
                   /\ r.analysis_progress \in {0, 10, 20, 90}
                   /\ r.analysis_report = None /\ r.analysis_format = None
                   /\ r.analysis_completed_at # None /\ r.error # None

\* a get that returns right after the done update of a chart task
C13_Witness ==
    /\ last.op = "api_status" /\ last.ret # None
    /\ last.ret[1].status = "done" /\ last.ret[1].filename # None
    /\ \E b \in Ids : b # last.id /\ task[b].pc \in {"validate", "generate"}

\* C14: an update issued for one id leaves the record of every other id as
\* it was, and every record carries what its own task wrote: the status of
\* the task's latest status update, the job type it was added with and, for
\* a chart, the filename generated for its own id.
C14_NoCrossWrites ==
    [][/\ \A id \in Ids :
             (last'.op = "update" /\ last'.id = id) =>
                \A k \in (DOMAIN jobs') \ {id} :
                    k \in DOMAIN jobs /\ jobs'[k] = jobs[k]
       /\ \A k \in DOMAIN jobs' :
             /\ jobs'[k].job_type = task'[k].kind
             /\ jobs'[k].status = IF calls'[k] = << >> THEN "pending"
                                  ELSE calls'[k][Len(calls'[k])]
             /\ jobs'[k].filename # None =>
                   \E name \in Names :
                       jobs'[k].filename = Some(FileName(name, k))]_vars

\* two chart tasks interleaved: one has just written done, the other is
\* between its running update and its last update
C14_Witness ==
    \E a \in DOMAIN jobs, b \in DOMAIN jobs :
        /\ a # b
        /\ last.op = "update" /\ last.id = a /\ last.code = 1
        /\ jobs[a].status = "done" /\ jobs[a].filename = Some(FileName("Ann", a))
        /\ task[b].kind = "chart" /\ task[b].pc = "generate"
        /\ jobs[b].status = "running" /\ jobs[b].filename = None

\* the record get would return for id: present and not older than retention
Visible(id) ==
    id \in DOMAIN jobs /\ now - jobs[id].created_at <= RetentionSeconds

\* C15: when the analysis task looks up its chart and the record is present
\* with a status other than done, or with svg_path None or empty, the task
\* returns at once without calling analyze_chart, and its record (if still in
\* the store) has status error with the message that the chart is not
\* available.
C15_ChartNotDone ==
    [][\A id \in Ids :
          (/\ task[id].pc = "get_chart" /\ task'[id].pc # "get_chart"
           /\ Visible(task[id].cid[1])
           /\ \/ jobs[task[id].cid[1]].status # "done"
              \/ jobs[task[id].cid[1]].svg_path \in {None, Some(<< >>)}) =>
             /\ task'[id].pc = "returned"
             /\ "llm" \notin task'[id].ext
             /\ id \in DOMAIN jobs' =>
                   /\ jobs'[id].status = "error"
                   /\ jobs'[id].substatus = Some("analysis_error")
                   /\ jobs'[id].error =
                        Some("Referenced chart is not available (chart must be done)")
                   /\ jobs'[id].analysis_report = None]_vars

\* the chart is done but its svg_path is empty
C15_Witness ==
    /\ task[AnalysisId].pc = "returned" /\ AnalysisId \in DOMAIN jobs
    /\ ChartId \in DOMAIN jobs /\ jobs[ChartId].status = "done"
    /\ jobs[ChartId].svg_path = Some(<< >>)
    /\ jobs[AnalysisId].status = "error"
    /\ jobs[AnalysisId].error =
          Some("Referenced chart is not available (chart must be done)")
    /\ task[AnalysisId].ext = {}

\* C16: when the analysis task looks up its chart and the id is not in the
\* store, or its record is older than the retention period, the task returns
\* at once without calling analyze_chart, and its record (if still in the
\* store) has status error with a 'not found or expired' message naming the
\* id, which is not the message for a chart that is not done.
C16_ChartMissing ==
    [][\A id \in Ids :
          (/\ task[id].pc = "get_chart" /\ task'[id].pc # "get_chart"
           /\ ~Visible(task[id].cid[1])) =>
             /\ task'[id].pc = "returned"
             /\ "llm" \notin task'[id].ext
             /\ id \in DOMAIN jobs' =>
                   /\ jobs'[id].status = "error"
                   /\ jobs'[id].error =
                        Some("Referenced chart job not found or expired: "
                             \o ToString(task[id].cid[1]))
                   /\ jobs'[id].error #
                        Some("Referenced chart is not available (chart must be done)")
                   /\ jobs'[id].analysis_report = None]_vars

\* the chart id was never added
C16_Witness ==
    /\ task[AnalysisId].pc = "returned" /\ AnalysisId \in DOMAIN jobs
    /\ task[AnalysisId].cid = Some(MaxJobs + 1)
    /\ jobs[AnalysisId].status = "error"
    /\ jobs[AnalysisId].error =
          Some("Referenced chart job not found or expired: "
               \o ToString(MaxJobs + 1))
    /\ task[AnalysisId].ext = {}

\* C17: an analysis task that found its chart done with a non-empty svg_path
\* and a filename reaches the analyze_chart call, and when that call returned
\* a text the task's record (if still in the store) ends with status done,
\* substatus analysis_done, analysis_progress 100, analysis_report equal to
\* the text and error None.
C17_AnalysisSuccess ==
    \A id \in Ids :
        (task[id].kind = "analysis" /\ task[id].pc = "returned") =>
            /\ (task[id].chart # None /\ task[id].chart[1].filename # None)
                  => "llm" \in task[id].ext
            /\ (task[id].report # None /\ id \in DOMAIN jobs) =>
                  /\ jobs[id].status = "done"
                  /\ jobs[id].substatus = Some("analysis_done")
                  /\ jobs[id].analysis_progress = 100
                  /\ jobs[id].analysis_report = task[id].report
                  /\ jobs[id].analysis_format = Some("markdown")
                  /\ jobs[id].error = None

C17_Witness ==
    /\ task[AnalysisId].pc = "returned" /\ AnalysisId \in DOMAIN jobs
    /\ ChartId \in DOMAIN jobs /\ jobs[ChartId].status = "done"
    /\ jobs[ChartId].filename = Some(FileName("Ann", ChartId))
    /\ jobs[AnalysisId].chart_job_id = Some(ChartId)
    /\ jobs[AnalysisId].status = "done"
    /\ jobs[AnalysisId].analysis_report = Some(Report)

C19_ErrorIsDescribed ==
    (/\ last.op \in {"api_status", "api_analysis"} /\ last.ret # None
     /\ last.ret[1].status = "error") =>
        /\ TruthyStr(last.ret[1].error)
        /\ last.ret[1].filename = None /\ last.ret[1].svg_path = None
        /\ last.ret[1].analysis_report = None
        /\ last.ret[1].analysis_format = None

\* C20: no update lowers the analysis_progress of a record; its values are
\* 0, 10, 20, 90 and 100, each reached from the one before it; an analysis
\* record has progress 100 exactly when its status is done, so the update
\* that writes done writes 100 and a failed task never writes 100.
C20_ProgressMonotone ==
    [][\A id \in (DOMAIN jobs) \cap (DOMAIN jobs') :
          LET p == jobs[id].analysis_progress
              q == jobs'[id].analysis_progress
          IN /\ q >= p
             /\ q \in {0, 10, 20, 90, 100}
             /\ q # p => <<p, q>> \in {<<0, 10>>, <<10, 20>>, <<20, 90>>,
                                        <<90, 100>>}
             /\ jobs'[id].job_type = "analysis" =>
                   (q = 100 <=> jobs'[id].status = "done")]_vars

C20_Witness ==
    /\ last.op = "update" /\ last.id = AnalysisId /\ last.code = 1
    /\ "analysis_progress" \in DOMAIN last.args[1]
    /\ last.args[1].analysis_progress = 100
    /\ jobs[AnalysisId].analysis_progress = 100
    /\ jobs[AnalysisId].status = "done"
    /\ calls[AnalysisId] = <<"running", "done">>

\* C21: for every analysis record analysis_started_at is None exactly while
\* its status is pending and analysis_completed_at is None exactly while its
\* status is pending or running (the transition to running stamps the first,
\* the transition to done or to error the second); for a chart record both
\* are None.
C21_Timestamps ==
    \A id \in DOMAIN jobs :
        LET j == jobs[id]
        IN IF j.job_type = "analysis"
           THEN /\ (j.analysis_started_at = None) <=> (j.status = "pending")
                /\ (j.analysis_completed_at = None)
                      <=> (j.status \in {"pending", "running"})
           ELSE /\ j.analysis_started_at = None
                /\ j.analysis_completed_at = None

C21_Witness ==
    /\ \E id \in DOMAIN jobs :
          /\ jobs[id].job_type = "analysis" /\ jobs[id].status = "error"
          /\ jobs[id].analysis_started_at # None
          /\ jobs[id].analysis_completed_at # None
          /\ task[id].pc = "returned"
    /\ \E id \in DOMAIN jobs :
          /\ jobs[id].job_type = "chart" /\ jobs[id].status = "done"
          /\ jobs[id].analysis_completed_at = None

\* C22: the chart_job_id of a record is the value that was given to add; no
\* update of a worker, no get and no cleanup changes it as long as the record
\* is in the store; it is None for every chart record.
C22_ChartJobIdFixed ==
    \A id \in DOMAIN jobs :
        /\ jobs[id].chart_job_id = task[id].param
        /\ jobs[id].job_type = "chart" => jobs[id].chart_job_id = None
        /\ jobs[id].job_type = "analysis" => jobs[id].chart_job_id # None

C22_Witness ==
    \E id \in DOMAIN jobs :
        /\ jobs[id].job_type = "analysis" /\ jobs[id].status = "done"
        /\ jobs[id].chart_job_id # None
        /\ jobs[id].chart_job_id[1] \notin DOMAIN jobs
        /\ task[id].pc = "returned"

\* the status a substatus is a phase of, and the job type it belongs to
PhaseOf(sub) ==
    CASE sub = "chart_pending" -> <<"chart", "pending">>
      [] sub = "chart_running" -> <<"chart", "running">>
      [] sub = "chart_done" -> <<"chart", "done">>
      [] sub = "analysis_pending" -> <<"analysis", "pending">>
      [] sub = "analysis_running" -> <<"analysis", "running">>
      [] sub = "analysis_done" -> <<"analysis", "done">>
      [] sub = "analysis_error" -> <<"analysis", "error">>
      [] OTHER -> <<"", "">>

\* C23: in every reachable state the substatus of a record is a phase of its
\* current status and of its job type (*_pending only with pending,
\* *_running only with running, *_done only with done, analysis_error only
\* with error, chart_* only on chart records and analysis_* only on analysis
\* records), also after a chart task has failed.
C23_SubstatusIsPhaseOfStatus ==
    \A id \in DOMAIN jobs :
        /\ jobs[id].substatus # None
        /\ PhaseOf(jobs[id].substatus[1]) = <<jobs[id].job_type, jobs[id].status>>

\* C29: for every accepted /submit and /analyze request the record of the
\* new id is added in status pending before its task is handed to the
\* executor, and each id is handed to the executor exactly once: every
\* minted id has one task, of the job type of its record; the record is
\* pending exactly while that task is queued and terminal exactly once it has
\* returned; the task writes running at most once; a record whose task
\* exists is missing from the store only if it has expired, so an update
\* that does not find its record comes after the record's expiry.
C29_RecordBeforeTask ==
    /\ \A id \in Ids :
          /\ (task[id].pc # "none") <=> (id <= nextId)
          /\ (task[id].pc # "none") <=> (born[id] >= 0)
          /\ Len(SelectSeq(calls[id], LAMBDA s : s = "running")) <= 1
          /\ id \in DOMAIN jobs =>
                /\ task[id].kind = jobs[id].job_type
                /\ (task[id].pc = "queued") <=> (jobs[id].status = "pending")
                /\ (task[id].pc = "returned") <=> (jobs[id].status \in Terminal)
          /\ (id \notin DOMAIN jobs /\ task[id].pc # "none") =>
                now - born[id] > RetentionSeconds
    /\ (last.op = "update" /\ last.code = 0) =>
          now - born[last.id] > RetentionSeconds

C29_Witness ==
    /\ last.op = "analyze" /\ last.code = 202
    /\ task[last.id].kind = "analysis" /\ task[last.id].pc = "queued"
    /\ last.id \in DOMAIN jobs /\ jobs[last.id].status = "pending"
    /\ calls[last.id] = << >>
    /\ \E c \in Ids : task[c].kind = "chart" /\ task[c].pc = "returned"

\* the program points at which the task of id is inside a long-running
\* external call: validation, chart generation (subprocess), the LLM call
InExternalCall(id) == task[id].pc \in {"validate", "generate", "llm"}

\* C27: no thread holds the JobStore lock while a long-running external call
\* is in progress: whenever a worker is inside validation, chart generation
\* or the LLM call it does not hold the lock, and the sleeping reaper does
\* not hold it; the lock is then free, so get, add, update and
\* cleanup_expired of other threads are not blocked by the external call.
C27_NoLockAcrossExternalCall ==
    /\ \A id \in Ids :
          InExternalCall(id) => (lock # Some(Worker(id)) /\ lock = None)
    /\ reaper.state = "sleeping" => lock # Some(Reaper)

C27_Witness ==
    \E id \in Ids :
        /\ task[id].kind = "analysis" /\ task[id].pc = "llm"
        /\ lock = None
        /\ last.op = "api_analysis" /\ last.id = id /\ last.code = 200
        /\ last.ret[1].status = "running"

\* the step is a /submit or /analyze request that is answered 400 or 404
Rejects ==
    /\ last = NoCall
    /\ last'.op \in {"submit", "analyze"}
    /\ last'.code \in {400, 404}

\* C28 as stated: a rejected request (POST /submit failing validation, POST
\* /analyze with no job id, with a chart id absent from the store, or with a
\* chart that is not done) leaves the set of records in the store unchanged
\* and submits no task to the executor.
C28_Original ==
    [][Rejects => (DOMAIN jobs' = DOMAIN jobs /\ task' = task)]_vars

\* C28 amended: a rejected request adds no record, changes no record, mints
\* no id and submits no task; the only record that can leave the store is
\* the expired chart record that a /analyze answered 404 looked up, which
\* job_store.get evicts.
C28_Amended ==
    [][Rejects =>
          /\ task' = task /\ nextId' = nextId /\ calls' = calls
          /\ DOMAIN jobs' \subseteq DOMAIN jobs
          /\ \A k \in DOMAIN jobs' : jobs'[k] = jobs[k]
          /\ Cardinality((DOMAIN jobs) \ (DOMAIN jobs')) <= 1
          /\ \A k \in (DOMAIN jobs) \ (DOMAIN jobs') :
                /\ IsExpired(jobs[k], now)
                /\ last'.op = "analyze" /\ last'.code = 404]_vars

C28_Witness ==
    /\ last.op = "analyze" /\ last.code = 404
    /\ nextId >= 1 /\ task[1].kind = "chart" /\ task[1].pc = "returned"
    /\ 1 \notin DOMAIN jobs
    /\ now - born[1] > RetentionSeconds

\* the records that leave the store in a step
Gone == (DOMAIN jobs) \ (DOMAIN jobs')

\* C30: under any interleaving of get calls and reaper sweeps a record is
\* removed exactly once: every record that leaves the store had expired and
\* leaves it either in a cleanup_expired call, which returns the number of
\* records that left in that call, or in a get call for that very id, which
\* removes nothing else and returns not-found; an id that has left never comes
\* back, so it cannot be removed or counted again, and a call that meets an
\* already-removed id answers normally (cleanup_expired a count, get
\* not-found).
C30_RemovedOnce ==
    [][/\ \A k \in Gone : IsExpired(jobs[k], now)
       /\ \A k \in (DOMAIN jobs') \ (DOMAIN jobs) :
             k = nextId + 1 /\ nextId' = nextId + 1
       /\ last'.op = "cleanup" =>
             (last'.ret # None /\ last'.ret[1] = Cardinality(Gone))
       /\ last'.op # "cleanup" => Cardinality(Gone) <= 1
       /\ (Gone # {} /\ last'.op \in {"api_status", "analyze"}) =>
             last'.code = 404
       /\ (Gone # {} /\ last'.op = "api_status") =>
             (Gone = {last'.id} /\ last'.ret = None)
       /\ (Gone # {} /\ last'.op = "api_analysis") =>
             \/ Gone = {last'.id} /\ last'.ret = None /\ last'.code = 404
             \/ /\ last'.ret # None
                /\ Gone = {last'.ret[1].chart_job_id[1]}
       /\ (Gone # {} /\ last'.op = "update") =>
             /\ task'[last'.id].exc # None
             /\ \/ /\ Gone = {last'.id}
                   /\ task'[last'.id].exc[1].msg = "Analysis job not found"
                \/ /\ Gone = {task[last'.id].cid[1]}
                   /\ task'[last'.id].exc[1]
                         = ChartMissingError(task[last'.id].cid[1])
       /\ Gone # {} =>
             last'.op \in {"cleanup", "api_status", "analyze", "api_analysis",
                           "update"}]_vars

C30_Witness ==
    /\ last.op = "cleanup" /\ last.ret = Some(1)
    /\ nextId = MaxJobs /\ DOMAIN jobs = {}
    /\ \A id \in Ids : now - born[id] > RetentionSeconds
                       /\ born[id] = born[1]

\* the records in status running
RunningRecords == {id \in DOMAIN jobs : jobs[id].status = "running"}

\* C24: at every instant at most 5 task bodies are executing, whatever the
\* number of submitted jobs; so at most 5 records are in status running at
\* the same time, every record in status running belongs to a task that
\* occupies a thread, and the record of a job whose task has not been given a
\* thread yet is still pending.
C24_AtMostFiveRunning ==
    /\ Cardinality(Active) <= 5
    /\ Cardinality(RunningRecords) <= 5
    /\ RunningRecords \subseteq Active
    /\ \A id \in DOMAIN task :
          (task[id].pc = "queued" /\ id \in DOMAIN jobs) =>
             jobs[id].status = "pending"

C24_Witness ==
    /\ Cardinality(Active) = 5
    /\ Cardinality(RunningRecords) = 5
    /\ \E id \in DOMAIN task :
          /\ task[id].pc = "queued"
          /\ jobs[id].status = "pending"
    /\ Cardinality(DOMAIN task) > 5

\* C25: if cleanup_expired, or the logging after it, raises during a reaper
\* tick, the reaper loop does not terminate: the reaper stays in its loop,
\* and after the n-th failing tick a further tick takes place that calls
\* cleanup_expired again (it returns a count, or raises for the n+1-th time),
\* for any number of failing ticks.
C25_ReaperSurvives ==
    /\ [](reaper.state = "sleeping")
    /\ \A n \in 1..MaxFailures :
          (reaper.failed = n /\ last.op = "cleanup_failed")
             ~> (last.op = "cleanup" \/ reaper.failed > n)

C25_Witness ==
    /\ reaper.failed = MaxFailures
    /\ reaper.state = "sleeping"
    /\ last.op = "cleanup" /\ last.ret # None /\ last.ret[1] >= 1

\* C26: once shutdown of the executor has started no newly submitted task is
\* accepted (the executor never opens again and no id without a task gets
\* one), and the shutdown completes only after every task submitted before
\* it, running or still queued at that moment, has performed its terminal
\* update; so once it has completed every task has returned, the last status
\* each wrote is done or error, and no record is in status running.
C26_ShutdownDrains ==
    [][/\ executor.state # "open" =>
             /\ executor'.state # "open"
             /\ \A i \in Ids : task[i].pc = "none" => task'[i].pc = "none"
       /\ executor'.state = "closed" =>
             /\ \A i \in Ids : task'[i].pc \in {"none", "returned"}
             /\ \A i \in executor'.queued \cup executor'.running :
                   /\ task'[i].pc = "returned"
                   /\ calls'[i] # << >>
                   /\ calls'[i][Len(calls'[i])] \in Terminal
             /\ \A i \in DOMAIN jobs' : jobs'[i].status # "running"]_vars

C26_Witness ==
    /\ executor.state = "closed"
    /\ executor.queued # {} /\ executor.running # {}
    /\ \E i \in executor.queued :
          /\ task[i].pc = "returned"
          /\ calls[i] = <<"running", "done">>
          /\ jobs[i].status = "done"

\* C33: an analysis task treats the chart record it refers to as read-only:
\* in no step of generate_analysis_job is an update issued on the chart job's
\* id, a chart record that stays in the store keeps every field, and a chart
\* record that has not expired stays in the store, whether the analysis
\* succeeds or fails.
C33_ChartReadOnly ==
    [][/\ (ChartId \in DOMAIN jobs /\ ChartId \in DOMAIN jobs') =>
             jobs'[ChartId] = jobs[ChartId]
       /\ (ChartId \in DOMAIN jobs /\ ~IsExpired(jobs[ChartId], now)) =>
             ChartId \in DOMAIN jobs'
       /\ last'.op = "update" => last'.id = AnalysisId
       /\ calls'[ChartId] = << >>]_vars

C33_Witness ==
    /\ task[AnalysisId].pc = "returned"
    /\ task[AnalysisId].cid = Some(ChartId)
    /\ task[AnalysisId].report # None
    /\ calls[AnalysisId] = <<"running", "done">>
    /\ ChartId \in DOMAIN jobs /\ jobs[ChartId] \in ChartRecords
    /\ calls[ChartId] = << >>

\* C34: the analysis task takes the chart id from its own record's
\* chart_job_id when that is set and only otherwise from its chart_job_id
\* parameter, so the stored id wins when the two differ; when neither gives
\* an id the task returns without looking up a chart, and its record has
\* status error with the message that no chart_job_id was provided.
C34_StoredIdWins ==
    [][\A id \in Ids :
          (/\ task[id].pc = "get_own" /\ task'[id].pc # "get_own"
           /\ Visible(id)) =>
             IF jobs[id].chart_job_id # None
             THEN /\ task'[id].pc = "get_chart"
                  /\ task'[id].cid = jobs[id].chart_job_id
             ELSE IF task[id].param # None
             THEN /\ task'[id].pc = "get_chart"
                  /\ task'[id].cid = task[id].param
             ELSE /\ task'[id].pc = "returned"
                  /\ task'[id].cid = None /\ task'[id].chart = None
                  /\ id \in DOMAIN jobs'
                  /\ jobs'[id].status = "error"
                  /\ jobs'[id].error = Some(
                       "chart_job_id not provided and not found in job metadata")
                  /\ \A k \in (DOMAIN jobs) \ {id} :
                        k \in DOMAIN jobs' /\ jobs'[k] = jobs[k]]_vars

\* the record names one chart, the parameter another
C34_Witness ==
    /\ task[AnalysisId].pc = "get_chart"
    /\ task[AnalysisId].param = Some(ChartId)
    /\ task[AnalysisId].cid = Some(MaxJobs + 1)
    /\ AnalysisId \in DOMAIN jobs
    /\ jobs[AnalysisId].chart_job_id = Some(MaxJobs + 1)

\* C35: when the chart record is done with a non-empty svg_path but has no
\* metadata, or metadata without a name, deriving the person name from the
\* stored filename never raises, also when the filename is None or empty:
\* every task that has passed the chart checks goes on to the analyze_chart
\* call, and if it ends in error the exception is one analyze_chart raised.
C35_NameFallbackNeverRaises ==
    \A id \in Ids :
        (/\ task[id].kind = "analysis" /\ task[id].pc = "returned"
         /\ task[id].chart # None
         /\ ~TruthyStr(MetaGet(task[id].chart[1].metadata, "name"))) =>
            /\ "llm" \in task[id].ext
            /\ task[id].exc # None =>
                  task[id].exc[1] \in {o.exc : o \in {x \in LLMOutcomes : ~x.ok}}

\* the job id an /analyze request carries: the form field job_id and, when
\* that is absent, the job_id field of the JSON body
CarriedChartJobId(req) ==
    IF req.form_id # None THEN req.form_id ELSE req.json_id

\* C37: POST /analyze takes the chart job id from the form field and, when
\* that is absent, from the JSON body; every request that carries the id of a
\* present, done chart in either place is answered 202 with a new analysis
\* record that refers to that chart, and a request is answered 400 without a
\* lookup only when neither place carries an id.
C37_AnalyzeFormOrJson ==
    last.op = "analyze" =>
        LET cj == CarriedChartJobId(last.args[1])
        IN /\ (cj # None /\ Visible(cj[1]) /\ jobs[cj[1]].status = "done") =>
                 /\ last.code = 202
                 /\ last.id \in DOMAIN jobs
                 /\ jobs[last.id].job_type = "analysis"
                 /\ jobs[last.id].chart_job_id = cj
           /\ (cj # None /\ cj[1] \notin DOMAIN jobs) => last.code = 404

C40_AdmissionAgreesWithWorker ==
    /\ \A id \in DOMAIN jobs :
          (jobs[id].job_type = "chart" /\ jobs[id].status = "done") =>
             /\ TruthyStr(jobs[id].svg_path)
             /\ TruthyStr(jobs[id].filename)
    /\ \A id \in Ids :
          task[id].kind = "analysis" =>
             /\ task[id].exc # Some(ChartUnavailableError)
             /\ (id \in DOMAIN jobs /\ jobs[id].status = "error") =>
                   jobs[id].error # Some(ChartUnavailableError.msg)
             /\ (task[id].cid # None /\ task[id].chart = None
                 /\ task[id].pc = "returned") =>
                   /\ task[id].exc = Some(ChartMissingError(task[id].cid[1]))
                   /\ now - born[task[id].cid[1]] > RetentionSeconds


\* C36: every response of /api/status/<job_id> describes the record as it
\* was at one single instant, even when a worker updates the record while
\* the response is being built: never status pending or running together
\* with a non-null error, never a status other than done together with a
\* filename, and a status done together with the filename.
C36_ResponseOfOneInstant ==
    (last.op = "status_body" /\ last.ret # None) =>
        LET resp == last.ret[1]
        IN /\ resp.status \in {"pending", "running"} => resp.error = None
           /\ resp.status # "done" => "filename" \notin DOMAIN resp
           /\ (resp.status = "done" /\ resp.job_type = "chart") =>
                 "filename" \in DOMAIN resp

\* C39: run on the same store with the same outcomes of the collaborators,
\* the handler of services/job_handlers.py and the handler of app.py of the
\* same kind issue the same update calls with the same values in the same
\* order, and leave the same store.
C39_HandlersAgree ==
    last.op \in {"chart_handlers", "analysis_handlers"} =>
        /\ last.ret[1].svc.updates = last.ret[1].app.updates
        /\ last.ret[1].svc.jobs = last.ret[1].app.jobs

C39_Witness ==
    /\ last.op = "analysis_handlers"
    /\ Len(last.ret[1].app.updates) = 5
    /\ last.ret[1].svc.updates = last.ret[1].app.updates
    /\ last.ret[1].svc.updates[5].status = "done"

\* C31: with no get ever called, every record added to the store is
\* eventually removed from it, whatever its status at that time, provided
\* time advances and the reaper keeps ticking; and when submissions have
\* stopped the store becomes empty and stays empty.
C31_EveryRecordRemoved ==
    /\ \A id \in Ids : (id \in DOMAIN jobs) ~> (id \notin DOMAIN jobs)
    /\ <>[](DOMAIN jobs = {})

C31_Witness ==
    /\ last.op = "cleanup" /\ last.ret = Some(MaxJobs)
    /\ DOMAIN jobs = {}
    /\ \E id \in Ids : task[id].pc = "queued"
    /\ calls[ChartId] = <<"running", "done">>

\* a poll of id has just been answered with status done, status error, or
\* not found
PollTerminal(id) ==
    \/ /\ last.op = "status_body" /\ last.id = id
       /\ last.ret[1].status \in Terminal
    \/ last.op = "api_status" /\ last.id = id /\ last.code = 404

\* C32: with every external call returning or raising and the workers
\* scheduled, the task of every accepted job terminates and issues no update
\* afterwards, and a client that keeps polling the id of an accepted job
\* eventually gets status done, status error or not found.
C32_EveryJobSettles ==
    /\ \A id \in Ids : (task[id].pc = "queued") ~> (task[id].pc = "returned")
    /\ \A id \in Ids : (born[id] >= 0) ~> PollTerminal(id)
    /\ [][\A id \in Ids : task[id].pc = "returned" =>
             /\ task'[id].pc = "returned"
             /\ calls'[id] = calls[id]]_vars

C32_Witness ==
    /\ \E id \in Ids :
          /\ task[id].kind = "analysis" /\ task[id].pc = "returned"
          /\ last.op = "status_body" /\ last.id = id
          /\ last.ret[1].status = "done"
    /\ \E id \in Ids :
          /\ task[id].kind = "chart" /\ task[id].pc = "returned"
          /\ Len(calls[id]) = 2

====
